---- MODULE Spec2Model ----
(***************************************************************************)
(* A model of fconcat's processing core: the Filter Engine, the Format     *)
(* Engine and its plugin registration, the tracked allocator of the Memory *)
(* Manager, and the iterative directory traversal with its structure and   *)
(* content passes.                                                         *)
(*                                                                         *)
(* Strings are sequences of one-character strings, so that glob matching   *)
(* (fnmatch), basename extraction and path building are computed on the    *)
(* characters as the C code computes them.                                 *)
(***************************************************************************)
EXTENDS Integers, Sequences, FiniteSets, TLC

VARIABLES
    \* ---- Filter Engine (src/src/filter/filter.h: FilterEngine) ----
    rules,            \* engine->rules[0 .. rule_count-1], in registration order
    rule_capacity,    \* engine->rule_capacity
    filter_plugins,   \* engine->plugins[0 .. plugin_count-1]
    filter_config,    \* engine->config (NoConfig before filter_engine_configure)
    query             \* the last filter_engine_should_include_path call and its result

filterVars == <<rules, rule_capacity, filter_plugins, filter_config, query>>

\* The Format Engine (format/format.h) and the plugin registry
\* (plugins/plugin.h): the registered formatters in registration order, the
\* active one, the configured format name ("" before format_engine_configure)
\* and the metadata of the loaded plugins.
VARIABLES format_plugins, active_formatter, output_format, registry, plugin_event
formatVars == <<format_plugins, active_formatter, output_format, registry, plugin_event>>

\* The Memory Manager (core/memory.h) over the C heap: the blocks malloc
\* hands out, the pointers the program holds, the MemoryStats counters, the
\* tracking switch and the outcome of the last allocator call.
VARIABLES heap, mem_handles, mem_stats, track_allocations, mem_event
\* The manager's BufferPool (buffer_sizes, in_use, and the heap buffers handed
\* out when no pool buffer fits) and the last buffer_pool call.
VARIABLES buffer_pool, pool_event
memVars == <<heap, mem_handles, mem_stats, track_allocations, mem_event,
             buffer_pool, pool_event>>

\* One run of the driver (main.c, core/context.c): the directory tree it is
\* pointed at, the configuration main resolved from the command line, the
\* Format Engine writer call from which the output device
\* fails (0: never), the driver's position, the DirStack and VisitedSet of
\* the traversal in progress, the Format Engine writer calls made so far,
\* the kinds of warning logged, and the result of the run; open_dirs is the
\* number of DIR handles the traversal holds open; faults holds what
\* else the environment does to the run: the code the failing writer returns,
\* the files memory_get_buffer has no buffer for, and the pass in which
\* dir_stack_create's calloc fails.
VARIABLES tree, run_config, fail_from, faults, run_pc, stack, visited, open_dirs, writer_log,
          warnings, run_result
walkVars == <<tree, run_config, fail_from, faults, run_pc, stack, visited, open_dirs, writer_log,
              warnings, run_result>>

\* The locks and the thread that takes them: the mutex of the plugin
\* registry, the mutex of the Filter Engine, and the calls in progress on
\* the thread's stack, innermost last.
VARIABLES registry_mutex, engine_mutex, call_stack
lockVars == <<registry_mutex, engine_mutex, call_stack>>

\* The StreamBuffer (core/memory.h: size, capacity) and the
\* stream_buffer_write in progress: where it stands, the size it writes,
\* the new_capacity and target of its loop, the value last returned, and
\* the number of calls made.
VARIABLES stream_buffer, stream_write
streamVars == <<stream_buffer, stream_write>>

vars == <<filterVars, formatVars, memVars, walkVars, lockVars, streamVars>>

(***************************************************************************)
(* Characters and strings                                                  *)
(***************************************************************************)

\* tolower() on the characters the model uses: the upper-case letters map to
\* their lower-case letter, every other character to itself.
ToLower(c) ==
    CASE c = "M" -> "m"
      [] c = "C" -> "c"
      [] OTHER -> c

\* The position of the last occurrence of character c in s, 0 when absent
\* (strrchr).
StrRChr(s, c) ==
    IF \A i \in 1..Len(s) : s[i] # c THEN 0
    ELSE CHOOSE i \in 1..Len(s) : s[i] = c /\ \A j \in (i + 1)..Len(s) : s[j] # c

\* s from position i (1-based) to its end.
Suffix(s, i) == SubSeq(s, i, Len(s))

\* strncmp(a, b, n) == 0 for n = Len(b): b is a prefix of a.
HasPrefix(a, b) == Len(a) >= Len(b) /\ SubSeq(a, 1, Len(b)) = b

(***************************************************************************)
(* fnmatch(3) without FNM_PATHNAME, FNM_PERIOD or FNM_NOESCAPE: '*' matches *)
(* any run of characters ('/' included), '?' one character, '[...]' one    *)
(* character of the set ('!' or '^' negates; an unterminated '[' is an     *)
(* ordinary character), and '\' makes the next character ordinary.  With   *)
(* fold = TRUE both sides are compared case-insensitively (FNM_CASEFOLD).  *)
(***************************************************************************)

FoldChar(c, fold) == IF fold THEN ToLower(c) ELSE c

\* The index in p of the ']' closing the bracket expression that opens at
\* p[1] = "[", or 0 when the expression is unterminated.  A ']' directly
\* after '[' (or after the negation sign) is a member, not the end.
RECURSIVE BracketScan(_, _)
BracketScan(p, i) ==
    IF i > Len(p) THEN 0
    ELSE IF p[i] = "\\" THEN (IF i + 1 > Len(p) THEN 0 ELSE BracketScan(p, i + 2))
    ELSE IF p[i] = "]" THEN i
    ELSE BracketScan(p, i + 1)

BracketNegated(p) == Len(p) >= 2 /\ p[2] \in {"!", "^"}

BracketFirst(p) == IF BracketNegated(p) THEN 3 ELSE 2

BracketEnd(p) ==
    LET first == BracketFirst(p)
    IN  IF first > Len(p) THEN 0
        ELSE IF p[first] = "\\" THEN BracketScan(p, first)
        ELSE BracketScan(p, first + 1)

\* The members of the bracket expression p[first .. last-1], '\' removed.
RECURSIVE BracketMembers(_, _, _, _)
BracketMembers(p, i, last, fold) ==
    IF i >= last THEN {}
    ELSE IF p[i] = "\\" THEN {FoldChar(p[i + 1], fold)} \cup BracketMembers(p, i + 2, last, fold)
    ELSE {FoldChar(p[i], fold)} \cup BracketMembers(p, i + 1, last, fold)

RECURSIVE Fnmatch(_, _, _)
Fnmatch(p, s, fold) ==
    IF p = <<>> THEN s = <<>>
    ELSE
      LET c == p[1] IN
      CASE c = "*" ->
             \E k \in 1..(Len(s) + 1) : Fnmatch(Tail(p), Suffix(s, k), fold)
        [] c = "?" ->
             s # <<>> /\ Fnmatch(Tail(p), Tail(s), fold)
        [] c = "\\" ->
             /\ Len(p) >= 2
             /\ s # <<>>
             /\ FoldChar(p[2], fold) = FoldChar(s[1], fold)
             /\ Fnmatch(Suffix(p, 3), Tail(s), fold)
        [] c = "[" ->
             LET last == BracketEnd(p) IN
             IF last = 0
             THEN /\ s # <<>>
                  /\ s[1] = "["
                  /\ Fnmatch(Tail(p), Tail(s), fold)
             ELSE /\ s # <<>>
                  /\ LET in == FoldChar(s[1], fold)
                                 \in BracketMembers(p, BracketFirst(p), last, fold)
                     IN  in # BracketNegated(p)
                  /\ Fnmatch(Suffix(p, last + 1), Tail(s), fold)
        [] OTHER ->
             /\ s # <<>>
             /\ FoldChar(c, fold) = FoldChar(s[1], fold)
             /\ Fnmatch(Tail(p), Tail(s), fold)

\* match_pattern_enhanced: an empty pattern matches nothing; otherwise a
\* case-sensitive match or, failing that, a case-insensitive one.
match_pattern_enhanced(pattern, string) ==
    IF Len(pattern) = 0 THEN FALSE
    ELSE Fnmatch(pattern, string, FALSE) \/ Fnmatch(pattern, string, TRUE)

\* get_basename: the part after the last '/' or '\', whichever comes last.
get_basename(path) ==
    LET a == StrRChr(path, "/")
        b == StrRChr(path, "\\")
        cut == IF b > a THEN b ELSE a
    IN  Suffix(path, cut + 1)

\* get_filename_util: the part after the last PATH_SEP ('/').
get_filename_util(path) == Suffix(path, StrRChr(path, "/") + 1)

(***************************************************************************)
(* Filter Engine: rules, built-in matchers, configuration                  *)
(***************************************************************************)

\* A NULL function pointer or string.
NULL == "NULL"

\* FileInfo (core/types.h), the fields the filters read; NullInfo is a NULL
\* FileInfo pointer.
FileInfo(is_directory, is_symlink) ==
    [is_null |-> FALSE, is_directory |-> is_directory, is_symlink |-> is_symlink]

NullInfo == [is_null |-> TRUE, is_directory |-> FALSE, is_symlink |-> FALSE]

\* Rule contexts: ExcludeContext and IncludeContext hold the pattern list,
\* BinaryContext and SymlinkContext the handling; NullContext is a NULL
\* context pointer.
NullContext == [kind |-> "NULL"]
PatternContext(patterns) == [kind |-> "patterns", patterns |-> patterns]
HandlingContext(handling) == [kind |-> "handling", handling |-> handling]

\* FilterType (include/fconcat_filter.h)
FILTER_TYPE_INCLUDE == "INCLUDE"
FILTER_TYPE_EXCLUDE == "EXCLUDE"
FILTER_TYPE_TRANSFORM == "TRANSFORM"

\* BinaryHandling and SymlinkHandling (core/types.h)
BinaryHandling == {"BINARY_SKIP", "BINARY_INCLUDE", "BINARY_PLACEHOLDER"}
SymlinkHandling == {"SYMLINK_SKIP", "SYMLINK_FOLLOW", "SYMLINK_INCLUDE", "SYMLINK_PLACEHOLDER"}

\* filter_engine_create: rule_capacity = 100
INITIAL_RULE_CAPACITY == 100

MAX_PLUGINS == 32

\* (ret < 0 || ret >= sizeof) fails for patterns this short; the directory
\* probe "<pattern>/*" is always built.
DirPattern(pattern) == pattern \o <<"/", "*">>

\* exclude_match_path: 1 when some pattern matches the full path or the
\* basename or, for a directory, when "<pattern>/*" matches the path.
RECURSIVE ExcludeScan(_, _, _, _)
ExcludeScan(patterns, i, path, info) ==
    IF i > Len(patterns) THEN 0
    ELSE IF match_pattern_enhanced(patterns[i], path) THEN 1
    ELSE IF match_pattern_enhanced(patterns[i], get_basename(path)) THEN 1
    ELSE IF ~info.is_null /\ info.is_directory
            /\ match_pattern_enhanced(DirPattern(patterns[i]), path) THEN 1
    ELSE ExcludeScan(patterns, i + 1, path, info)

exclude_match_path(path, info, context) ==
    IF context = NullContext THEN 0 ELSE ExcludeScan(context.patterns, 1, path, info)

\* include_match_path: directories always match; a file matches when some
\* pattern matches its basename, its path, or its path without a leading
\* "src/".
RECURSIVE IncludeScan(_, _, _)
IncludeScan(patterns, i, path) ==
    IF i > Len(patterns) THEN 0
    ELSE IF match_pattern_enhanced(patterns[i], get_basename(path)) THEN 1
    ELSE IF match_pattern_enhanced(patterns[i], path) THEN 1
    ELSE IF HasPrefix(path, <<"s", "r", "c", "/">>)
            /\ match_pattern_enhanced(patterns[i], Suffix(path, 5)) THEN 1
    ELSE IncludeScan(patterns, i + 1, path)

include_match_path(path, info, context) ==
    IF context = NullContext THEN 0
    ELSE IF ~info.is_null /\ info.is_directory THEN 1
    ELSE IncludeScan(context.patterns, 1, path)

\* symlink_match_path: info->is_symlink
symlink_match_path(path, info, context) ==
    IF context = NullContext \/ info.is_null THEN 0
    ELSE IF info.is_symlink THEN 1 ELSE 0

\* rule->match_path(path, info, rule->context) through the function pointer.
\* A rule added through filter_engine_add_rule carries a caller's matcher,
\* modelled by the value it returns.
CallMatchPath(rule, path, info) ==
    CASE rule.match_path = "exclude_match_path" -> exclude_match_path(path, info, rule.context)
      [] rule.match_path = "include_match_path" -> include_match_path(path, info, rule.context)
      [] rule.match_path = "symlink_match_path" -> symlink_match_path(path, info, rule.context)
      [] rule.match_path = "user_match_path" -> rule.context.ret

\* The rule loop of filter_engine_should_include_path from rule i on: 0 as
\* soon as an Exclude rule matches or an Include rule does not, 1 when the
\* loop runs to its end.
\* A rule loop in which an Include rule never vetoes.
RECURSIVE RuleLoop_IncludeNeverVetoes(_, _, _, _)
RuleLoop_IncludeNeverVetoes(rs, i, path, info) ==
    IF i > Len(rs) THEN 1
    ELSE IF /\ rs[i].match_path # NULL
            /\ rs[i].type = FILTER_TYPE_EXCLUDE
            /\ CallMatchPath(rs[i], path, info) # 0
         THEN 0
         ELSE RuleLoop_IncludeNeverVetoes(rs, i + 1, path, info)

RECURSIVE RuleLoop(_, _, _, _)
RuleLoop(rs, i, path, info) ==
    IF i > Len(rs) THEN 1
    ELSE
      LET rule == rs[i] IN
      IF rule.match_path # NULL
      THEN LET result == CallMatchPath(rule, path, info) IN
           IF rule.type = FILTER_TYPE_EXCLUDE /\ result # 0 THEN 0
           ELSE IF rule.type = FILTER_TYPE_INCLUDE /\ result = 0 THEN 0
           ELSE RuleLoop(rs, i + 1, path, info)
      ELSE RuleLoop(rs, i + 1, path, info)

\* The plugin loop: 0 as soon as a plugin with a should_include_path hook
\* returns 0.
RECURSIVE PluginLoop(_, _)
PluginLoop(ps, i) ==
    IF i > Len(ps) THEN 1
    ELSE IF ps[i].should_include_path.present /\ ps[i].should_include_path.ret = 0 THEN 0
    ELSE PluginLoop(ps, i + 1)

should_include_path(rs, ps, path, info) ==
    IF RuleLoop(rs, 1, path, info) = 0 THEN 0 ELSE PluginLoop(ps, 1)

\* A filter that lets every directory through.
filter_engine_should_include_path_FilesOnly(path, info) ==
    IF info.is_directory THEN 1 ELSE should_include_path(rules, filter_plugins, path, info)

filter_engine_should_include_path(path, info) ==
    should_include_path(rules, filter_plugins, path, info)

\* realpath() on the paths the model configures, which are absolute and free
\* of symlinks, "." and "..": a trailing '/' is dropped (except for "/").
get_absolute_path_util(path) ==
    IF Len(path) > 1 /\ path[Len(path)] = "/"
    THEN SubSeq(path, 1, Len(path) - 1)
    ELSE path

\* abs_base with a trailing separator for the prefix comparison.
WithTrailingSep(abs) ==
    IF Len(abs) > 0 /\ abs[Len(abs)] # "/" THEN abs \o <<"/">> ELSE abs

\* get_relative_path_util: the target below the base, <<>> with found = FALSE
\* for a NULL result.
get_relative_path_util(base_dir, target_path) ==
    LET abs_base == WithTrailingSep(get_absolute_path_util(base_dir))
        abs_target == get_absolute_path_util(target_path)
    IN  IF HasPrefix(abs_target, abs_base)
        THEN [found |-> TRUE, path |-> Suffix(abs_target, Len(abs_base) + 1)]
        ELSE [found |-> FALSE, path |-> <<>>]

\* filter_engine_add_rule_internal on st = [rules, rule_capacity]: the array
\* doubles when full, the rule is appended.
filter_engine_add_rule_internal(st, rule) ==
    [rules |-> Append(st.rules, rule),
     rule_capacity |-> IF Len(st.rules) >= st.rule_capacity
                       THEN st.rule_capacity * 2 ELSE st.rule_capacity]

Rule(type, priority, match_path, match_content, transform, context) ==
    [type |-> type, priority |-> priority, match_path |-> match_path,
     match_content |-> match_content, transform |-> transform, context |-> context]

\* output_inside_input of add_output_file_exclusion
OutputInsideInput(config) ==
    HasPrefix(get_absolute_path_util(config.output_file),
              WithTrailingSep(get_absolute_path_util(config.input_directory)))

\* The patterns of the output-file rule: the absolute path, the path
\* relative to the input directory, the basename.
OutputFilePatterns(config) ==
    LET rel == get_relative_path_util(config.input_directory, config.output_file)
    IN  <<get_absolute_path_util(config.output_file)>>
        \o (IF rel.found THEN <<rel.path>> ELSE <<>>)
        \o <<get_filename_util(config.output_file)>>

add_output_file_exclusion(st, config) ==
    IF OutputInsideInput(config)
    THEN filter_engine_add_rule_internal(st,
             Rule(FILTER_TYPE_EXCLUDE, 200, "exclude_match_path", NULL, NULL,
                  PatternContext(OutputFilePatterns(config))))
    ELSE st

\* The whitespace normalisation of create_exclude_context and
\* create_include_context: leading and trailing blanks and tabs removed.
IsBlank(c) == c = " " \/ c = "\t"

RECURSIVE TrimTrailing(_)
TrimTrailing(s) ==
    IF Len(s) > 0 /\ IsBlank(s[Len(s)]) THEN TrimTrailing(SubSeq(s, 1, Len(s) - 1)) ELSE s

RECURSIVE TrimLeading(_)
TrimLeading(s) ==
    IF Len(s) > 0 /\ IsBlank(s[1]) THEN TrimLeading(Tail(s)) ELSE s

NormalizePatterns(patterns) ==
    [i \in 1..Len(patterns) |-> TrimLeading(TrimTrailing(patterns[i]))]

filter_exclude_patterns_init_internal(st, config) ==
    IF Len(config.exclude_patterns) = 0 THEN st
    ELSE filter_engine_add_rule_internal(st,
             Rule(FILTER_TYPE_EXCLUDE, 100, "exclude_match_path", NULL, NULL,
                  PatternContext(NormalizePatterns(config.exclude_patterns))))

filter_include_patterns_init_internal(st, config) ==
    IF Len(config.include_patterns) = 0 THEN st
    ELSE filter_engine_add_rule_internal(st,
             Rule(FILTER_TYPE_INCLUDE, 50, "include_match_path", NULL, NULL,
                  PatternContext(NormalizePatterns(config.include_patterns))))

filter_binary_detection_init_internal(st, config) ==
    CASE config.binary_handling = "BINARY_SKIP" ->
           filter_engine_add_rule_internal(st,
               Rule(FILTER_TYPE_EXCLUDE, 90, NULL, "binary_match_content", NULL,
                    HandlingContext(config.binary_handling)))
      [] config.binary_handling = "BINARY_PLACEHOLDER" ->
           filter_engine_add_rule_internal(st,
               Rule(FILTER_TYPE_TRANSFORM, 90, NULL, "binary_match_content", "binary_transform",
                    HandlingContext(config.binary_handling)))
      [] OTHER -> st

filter_symlink_handling_init_internal(st, config) ==
    CASE config.symlink_handling = "SYMLINK_SKIP" ->
           filter_engine_add_rule_internal(st,
               Rule(FILTER_TYPE_EXCLUDE, 80, "symlink_match_path", NULL, NULL,
                    HandlingContext(config.symlink_handling)))
      [] config.symlink_handling = "SYMLINK_PLACEHOLDER" ->
           filter_engine_add_rule_internal(st,
               Rule(FILTER_TYPE_TRANSFORM, 80, "symlink_match_path", NULL, "symlink_transform",
                    HandlingContext(config.symlink_handling)))
      [] OTHER -> st

\* filter_engine_configure: the output-file rule, then the exclude patterns,
\* the binary rule and the symlink rule.  The include patterns of the
\* configuration are not installed: filter_include_patterns_init_internal
\* has no caller.
filter_engine_configure(st, config) ==
    filter_symlink_handling_init_internal(
        filter_binary_detection_init_internal(
            filter_exclude_patterns_init_internal(
                add_output_file_exclusion(st, config), config), config), config)

(***************************************************************************)
(* Names, patterns and configurations the model draws its inputs from      *)
(***************************************************************************)

S_main_c == <<"m", "a", "i", "n", ".", "c">>
S_test_main_c == <<"t", "e", "s", "t", "_", "m", "a", "i", "n", ".", "c">>
S_readme_md == <<"r", "e", "a", "d", "m", "e", ".", "m", "d">>
S_upper_c == <<"M", ".", "C">>
S_out == <<"o", "u", "t">>
S_bracket == <<"o", "[", "1", "]">>
S_d == <<"d">>
S_d_out == <<"d", "/", "o", "u", "t">>
P_star_c == <<"*", ".", "c">>
P_test_star_c == <<" ", "t", "e", "s", "t", "_", "*", ".", "c">>

\* The input directory and the places the output file may be.
InputDirectory == <<"/", "i">>
OutsideOutput == <<"/", "o", "/", "o", "u", "t">>
InsideOutputs == {InputDirectory \o <<"/">> \o n : n \in {S_out, S_bracket, S_d_out}}

\* ResolvedConfig (core/types.h), the fields the engines read.
ResolvedConfig(binary, symlink, format, input, output, excludes, includes) ==
    [binary_handling |-> binary, symlink_handling |-> symlink, output_format |-> format,
     input_directory |-> input, output_file |-> output,
     exclude_patterns |-> excludes, include_patterns |-> includes]

NoConfig == [none |-> TRUE]

\* The command lines the model runs with: include and exclude patterns with
\* followed symlinks, or no patterns with skipped symlinks.
PatternChoices ==
    {<<"SYMLINK_FOLLOW", <<P_test_star_c>>, <<P_star_c>>>>, <<"SYMLINK_SKIP", <<>>, <<>>>>}

FilterConfigs ==
    {ResolvedConfig("BINARY_SKIP", c[1], "text", InputDirectory, out, c[2], c[3]) :
        out \in InsideOutputs \cup {OutsideOutput}, c \in PatternChoices}

\* The configurations of the transform runs: binary files skipped, or
\* replaced by the placeholder, which installs binary_transform.
TransformConfigs ==
    {ResolvedConfig(binary, "SYMLINK_SKIP", "text", InputDirectory, OutsideOutput, <<>>, <<>>) :
        binary \in {"BINARY_SKIP", "BINARY_PLACEHOLDER"}}

\* The (path, info) pairs should_include_path is asked about.
QueryPaths == {S_main_c, S_test_main_c, S_readme_md, S_upper_c, S_out, S_bracket, S_d_out}

Queries ==
    {<<pth, FileInfo(FALSE, FALSE)>> : pth \in QueryPaths}
    \cup {<<S_d, FileInfo(TRUE, FALSE)>>, <<S_main_c, FileInfo(FALSE, TRUE)>>,
          <<S_readme_md, NullInfo>>}

\* Rules a caller may add through filter_engine_add_rule: an Include or an
\* Exclude rule whose matcher returns ret.
UserRules ==
    {Rule(type, 10, "user_match_path", NULL, NULL, [kind |-> "user", ret |-> ret]) :
        type \in {FILTER_TYPE_INCLUDE, FILTER_TYPE_EXCLUDE}, ret \in {0, 1}}

\* Rules and plugins whose matcher may report a failure: a negative return.
FailingRules ==
    {Rule(type, 10, "user_match_path", NULL, NULL, [kind |-> "user", ret |-> ret]) :
        type \in {FILTER_TYPE_INCLUDE, FILTER_TYPE_EXCLUDE}, ret \in {-1, 0, 1}}

FailingPlugins ==
    {[name |-> "fp", should_include_path |-> h, transform_content |-> [present |-> FALSE, ret |-> 0]] :
        h \in {[present |-> TRUE, ret |-> -1], [present |-> TRUE, ret |-> 1]}}

\* A FilterPlugin hook: absent (a NULL function pointer) or returning ret.
NoHook == [present |-> FALSE, ret |-> 0]
Hook(ret) == [present |-> TRUE, ret |-> ret]

FilterPlugins ==
    {[name |-> "fp", should_include_path |-> h, transform_content |-> NoHook] :
        h \in {NoHook, Hook(0), Hook(1)}}

MaxUserRules == 2
MaxFilterPlugins == 1

\* What a transform function does with the data it is given: its return
\* value, whether it stored a buffer in *output, and the tag by which its
\* output differs from its input.
Transform(ret, has_data, tag) ==
    [kind |-> "user", ret |-> ret, has_data |-> has_data, tag |-> tag]

\* Rules with a transform function a caller may add through
\* filter_engine_add_rule: Transform rules of priorities 10 and 90 that
\* substitute, Transform rules that decline (a non-zero return, or no
\* buffer), an Include rule with a transform function, and a Transform rule
\* without one.
TransformRules ==
    {Rule(FILTER_TYPE_TRANSFORM, 10, NULL, NULL, "user_transform", Transform(0, TRUE, "a")),
     Rule(FILTER_TYPE_TRANSFORM, 90, NULL, NULL, "user_transform", Transform(0, TRUE, "b")),
     Rule(FILTER_TYPE_TRANSFORM, 50, NULL, NULL, "user_transform", Transform(-1, TRUE, "c")),
     Rule(FILTER_TYPE_TRANSFORM, 50, NULL, NULL, "user_transform", Transform(0, FALSE, "d")),
     Rule(FILTER_TYPE_INCLUDE, 50, NULL, NULL, "user_transform", Transform(0, TRUE, "e")),
     Rule(FILTER_TYPE_TRANSFORM, 50, NULL, NULL, NULL, Transform(0, TRUE, "f"))}

\* Filter plugins by their transform_content hook: absent, substituting,
\* declining.
TransformPlugins ==
    {[name |-> n, should_include_path |-> NoHook, transform_content |-> h] :
        n \in {"fp"},
        h \in {NoHook,
               [present |-> TRUE, hook |-> Transform(0, TRUE, "p")],
               [present |-> TRUE, hook |-> Transform(0, TRUE, "q")],
               [present |-> TRUE, hook |-> Transform(-1, TRUE, "r")]}}

\* The input of filter_engine_transform_content: a chunk of size bytes, of
\* text or with a NUL byte at its head.
TransformInputs == {[size |-> 5, data |-> <<"original">>], [size |-> 5, data |-> <<"NUL">>]}

MaxTransformRules == 2
MaxTransformPlugins == 2

\* query records the last should_include_path call made on the engine as it
\* now stands and its return value; it is cleared when the engine changes.
NoQuery == [asked |-> FALSE]

(***************************************************************************)
(* The Filter Engine as a state machine                                    *)
(***************************************************************************)

FilterEngineCreate ==
    /\ rules = <<>>
    /\ rule_capacity = INITIAL_RULE_CAPACITY
    /\ filter_plugins = <<>>
    /\ filter_config = NoConfig
    /\ query = NoQuery
    /\ engine_mutex = "unlocked"

UserRuleCount == Cardinality({i \in 1..Len(rules) : rules[i].match_path = "user_match_path"})

\* filter_engine_configure(engine, config)
FilterEngineConfigure(config) ==
    /\ filter_config = NoConfig
    /\ LET st == filter_engine_configure(
                     [rules |-> rules, rule_capacity |-> rule_capacity], config)
       IN  /\ rules' = st.rules
           /\ rule_capacity' = st.rule_capacity
    /\ filter_config' = config
    /\ query' = NoQuery
    /\ UNCHANGED filter_plugins
    /\ UNCHANGED <<formatVars, memVars, walkVars, lockVars, streamVars>>

\* filter_engine_add_rule(engine, rule), on the engine main has configured
FilterEngineAddRule(rule) ==
    /\ filter_config # NoConfig
    /\ LET st == filter_engine_add_rule_internal(
                     [rules |-> rules, rule_capacity |-> rule_capacity], rule)
       IN  /\ rules' = st.rules
           /\ rule_capacity' = st.rule_capacity
    /\ query' = NoQuery
    /\ UNCHANGED <<filter_plugins, filter_config>>
    /\ UNCHANGED <<formatVars, memVars, walkVars, lockVars, streamVars>>

\* filter_engine_register_plugin(engine, plugin), on the engine main has
\* configured
FilterEngineRegisterPlugin(plugin) ==
    /\ filter_config # NoConfig
    /\ Len(filter_plugins) < MAX_PLUGINS
    /\ filter_plugins' = Append(filter_plugins, plugin)
    /\ query' = NoQuery
    /\ UNCHANGED <<rules, rule_capacity, filter_config>>
    /\ UNCHANGED <<formatVars, memVars, walkVars, lockVars, streamVars>>

\* filter_engine_should_include_path(engine, ctx, path, info)
FilterEngineQuery(path, info) ==
    /\ query' = [asked |-> TRUE, path |-> path, info |-> info,
                 result |-> filter_engine_should_include_path(path, info)]
    /\ UNCHANGED <<rules, rule_capacity, filter_plugins, filter_config>>
    /\ UNCHANGED <<formatVars, memVars, walkVars, lockVars, streamVars>>


(***************************************************************************)
(* The Format Engine and plugin loading                                    *)
(***************************************************************************)

\* A FormatPlugin object: its name and the library that defines it.
Formatter(name, lib) == [name |-> name, lib |-> lib]
NoFormatter == Formatter("", "NULL")

format_text_plugin == Formatter("text", "builtin")
format_json_plugin == Formatter("json", "builtin")

RECURSIVE FirstNamed(_, _, _)
FirstNamed(plugins, i, name) ==
    IF i > Len(plugins) THEN 0
    ELSE IF plugins[i].name = name THEN i
    ELSE FirstNamed(plugins, i + 1, name)

\* A lookup that keeps the last registered formatter with the name.
format_engine_set_active_formatter_LastMatch(engine, name) ==
    LET hits == {i \in 1..Len(engine.plugins) : engine.plugins[i].name = name}
    IN  IF hits = {} THEN [engine |-> engine, ret |-> -1]
        ELSE [engine |-> [engine EXCEPT !.active =
                             engine.plugins[CHOOSE i \in hits : \A j \in hits : j <= i]],
              ret |-> 0]

\* format_engine_set_active_formatter_unlocked: the first registered
\* formatter with the name becomes active; -1 when there is none.
format_engine_set_active_formatter_unlocked(engine, name) ==
    LET i == FirstNamed(engine.plugins, 1, name)
    IN  IF i = 0 THEN [engine |-> engine, ret |-> -1]
        ELSE [engine |-> [engine EXCEPT !.active = engine.plugins[i]], ret |-> 0]

\* format_engine_register_plugin: refused when the engine is full; the
\* first formatter registered becomes the active one.
format_engine_register_plugin(engine, plugin) ==
    IF Len(engine.plugins) >= MAX_PLUGINS THEN engine
    ELSE [plugins |-> Append(engine.plugins, plugin),
          active |-> IF Len(engine.plugins) = 0 THEN plugin ELSE engine.active]

\* format_engine_create registers the built-in formatters: the text one.
format_engine_create ==
    format_engine_register_plugin([plugins |-> <<>>, active |-> NoFormatter],
                                  format_text_plugin)

\* format_engine_configure: select by name, else fall back to plugins[0].
format_engine_configure(engine, format_name) ==
    LET r == format_engine_set_active_formatter_unlocked(engine, format_name)
    IN  IF r.ret # 0
        THEN IF Len(engine.plugins) > 0
             THEN [engine EXCEPT !.active = engine.plugins[1]]
             ELSE engine
        ELSE r.engine

\* The shared libraries a command line may name. exports says what the
\* probe of each entry point finds: the symbol is "absent", the entry point
\* returns "NULL", or it returns a "plugin" struct. init says how the
\* struct's init hook behaves ("absent" is a NULL function pointer, "ok"
\* returns 0, "fail" returns -1) and cleanup whether it has a cleanup hook.
PLUGIN_TYPE_FORMAT == "FORMAT"
PLUGIN_TYPE_FILTER == "FILTER"
PLUGIN_TYPE_CONTENT == "CONTENT"

\* The entry points in the order plugin_manager_load_plugin probes them, and
\* the kind each one stands for.
EntryPoints == <<"get_format_plugin", "get_filter_plugin", "get_plugin">>
PluginTypes == <<PLUGIN_TYPE_FORMAT, PLUGIN_TYPE_FILTER, PLUGIN_TYPE_CONTENT>>

Exports(format, filter, content) ==
    [get_format_plugin |-> format, get_filter_plugin |-> filter, get_plugin |-> content]

Library(path, exports, name, init, cleanup) ==
    [path |-> path, exports |-> exports, name |-> name, init |-> init, cleanup |-> cleanup]

PluginLibraries ==
    {Library("json.so", Exports("plugin", "absent", "absent"), "json", "ok", TRUE),
     Library("xml.so", Exports("plugin", "absent", "absent"), "xml", "absent", FALSE),
     Library("text.so", Exports("plugin", "absent", "absent"), "text", "fail", TRUE),
     Library("filt.so", Exports("absent", "plugin", "absent"), "filt", "ok", FALSE),
     Library("cont.so", Exports("absent", "absent", "plugin"), "cont", "fail", TRUE),
     Library("bad.so", Exports("absent", "absent", "absent"), "", "absent", FALSE)}

\* Libraries that export several entry points, or one that returns NULL.
ProbeLibraries ==
    PluginLibraries \cup
    {Library("multi.so", Exports("plugin", "plugin", "plugin"), "multi", "ok", TRUE),
     Library("fc.so", Exports("absent", "plugin", "plugin"), "fc", "absent", TRUE),
     Library("nullfmt.so", Exports("NULL", "absent", "plugin"), "nullfmt", "ok", FALSE)}

FormatNames == {"text", "json", "xml", "yaml"}

MaxLoads == 3

\* The loads made one at a time in a run that follows the plugin manager
\* through its life, and a command line that names MAX_PLUGINS plugins.
MaxPlugins == 2
FullPluginList ==
    [i \in 1..MAX_PLUGINS |->
        Library("cont.so", Exports("absent", "absent", "plugin"), "cont", "fail", TRUE)]

PluginMetadata(lib, type) ==
    [name |-> lib.name, type |-> type, initialized |-> FALSE, handle |-> lib.path,
     init |-> lib.init, cleanup |-> lib.cleanup]

\* One call a plugin manager operation makes into the dynamic loader or into
\* plugin code: dlsym(sym), the entry point sym, the init or cleanup hook of
\* registry entry index, dlclose of a handle.
PluginCall(op, sym, index, ret) == [op |-> op, sym |-> sym, index |-> index, ret |-> ret]

\* plugin_event records the last plugin manager operation: its argument, its
\* return value and the calls it made, in order.
NoPluginEvent == [op |-> "none", lib |-> "", ret |-> 0, calls |-> <<>>]

FormatEngineCreate ==
    /\ format_plugins = format_engine_create.plugins
    /\ active_formatter = format_engine_create.active
    /\ output_format = ""

\* The probes of plugin_manager_load_plugin from entry point k of order on:
\* dlsym, then the entry point when the symbol is there; the first entry point
\* that returns a plugin ends the probing. found is 0 when none does.
RECURSIVE ProbeLoop(_, _, _, _)
ProbeLoop(lib, order, k, calls) ==
    IF k > Len(order) THEN [found |-> 0, calls |-> calls]
    ELSE LET sym == order[k]
             e == lib.exports[sym]
             c1 == Append(calls, PluginCall("dlsym", sym, 0, IF e = "absent" THEN 0 ELSE 1))
             c2 == IF e = "absent" THEN c1
                   ELSE Append(c1, PluginCall("entry", sym, 0, IF e = "plugin" THEN 1 ELSE 0))
         IN  IF e = "plugin" THEN [found |-> k, calls |-> c2]
             ELSE ProbeLoop(lib, order, k + 1, c2)

\* The state plugin_manager_load_plugin works on: the registry and the two
\* engines the manager was configured with.
ManagerState ==
    [registry |-> registry, format_plugins |-> format_plugins,
     active_formatter |-> active_formatter, filter_plugins |-> filter_plugins]

\* plugin_manager_load_plugin with the entry points probed in the given
\* order. A library no probe recognizes, or one recognized while the registry
\* is full, is closed and -1 returned; else a PluginMetadata of the
\* recognized kind is appended and the plugin registered with its engine.
LoadPlugin(st, lib, order) ==
    LET p == ProbeLoop(lib, order, 1, <<>>)
    IN  IF p.found = 0 \/ Len(st.registry) >= MAX_PLUGINS
        THEN [st |-> st, ret |-> -1,
              calls |-> Append(p.calls, PluginCall("dlclose", lib.path, 0, 0))]
        ELSE LET sym == order[p.found]
                 type == PluginTypes[CHOOSE i \in 1..Len(EntryPoints) : EntryPoints[i] = sym]
                 st1 == [st EXCEPT !.registry = Append(@, PluginMetadata(lib, type))]
                 plugin == Formatter(lib.name, lib.path)
                 e1 == format_engine_register_plugin(
                           [plugins |-> st.format_plugins,
                            active |-> st.active_formatter], plugin)
                 e2 == format_engine_set_active_formatter_unlocked(e1, plugin.name).engine
             IN  [st |-> CASE type = PLUGIN_TYPE_FORMAT ->
                                [st1 EXCEPT !.format_plugins = e2.plugins,
                                            !.active_formatter = e2.active]
                           [] type = PLUGIN_TYPE_FILTER ->
                                [st1 EXCEPT !.filter_plugins =
                                    IF Len(@) < MAX_PLUGINS
                                    THEN Append(@, [name |-> lib.name,
                                                    should_include_path |-> Hook(1),
                                                    transform_content |-> NoHook])
                                    ELSE @]
                           [] OTHER -> st1,
                  ret |-> 0, calls |-> p.calls]

\* A loader that probes the content entry point first.
plugin_manager_load_plugin_ContentFirst(st, lib) ==
    LoadPlugin(st, lib, <<"get_plugin", "get_filter_plugin", "get_format_plugin">>)

\* plugin_manager_load_plugin(manager, path, parameters, parameter_count):
\* format first, filter second, content last. dlopen is taken to succeed and
\* malloc not to fail.
plugin_manager_load_plugin(st, lib) == LoadPlugin(st, lib, EntryPoints)

\* The loop of plugin_manager_configure over config->plugins from entry i on;
\* a failed load is reported and the loop goes on.
RECURSIVE plugin_manager_configure(_, _, _)
plugin_manager_configure(st, plugins, i) ==
    IF i > Len(plugins) THEN st
    ELSE LET r == plugin_manager_load_plugin(st, plugins[i])
         IN  IF r.ret # 0
             THEN plugin_manager_configure(st, plugins, i + 1)
             ELSE plugin_manager_configure(r.st, plugins, i + 1)

\* The calls of the steps of a loop, in the order of the loop.
RECURSIVE CallsFrom(_, _)
CallsFrom(steps, i) ==
    IF i > Len(steps) THEN <<>> ELSE steps[i].calls \o CallsFrom(steps, i + 1)

\* An initialization step that sets the flag whatever init returns.
InitializeEntry_IgnoresResult(meta, i) ==
    IF meta.initialized THEN [meta |-> meta, calls |-> <<>>]
    ELSE [meta |-> [meta EXCEPT !.initialized = TRUE],
          calls |-> IF meta.init = "absent" THEN <<>>
                    ELSE <<PluginCall("init", meta.name, i,
                                      IF meta.init = "ok" THEN 0 ELSE -1)>>]

\* The body of the loop of plugin_manager_initialize_plugins for registry
\* entry i: an initialized entry is skipped; an entry with an init hook is
\* flagged when the hook returns 0; an entry without one is flagged without a
\* call.
InitializeEntry(meta, i) ==
    IF meta.initialized THEN [meta |-> meta, calls |-> <<>>]
    ELSE IF meta.init = "absent"
    THEN [meta |-> [meta EXCEPT !.initialized = TRUE], calls |-> <<>>]
    ELSE LET result == IF meta.init = "ok" THEN 0 ELSE -1
         IN  [meta |-> [meta EXCEPT !.initialized = (result = 0)],
              calls |-> <<PluginCall("init", meta.name, i, result)>>]

\* plugin_manager_initialize_plugins(manager, ctx)
plugin_manager_initialize_plugins(reg) ==
    LET steps == [i \in 1..Len(reg) |-> InitializeEntry(reg[i], i)]
    IN  [registry |-> [i \in 1..Len(reg) |-> steps[i].meta], ret |-> 0,
         calls |-> CallsFrom(steps, 1)]

\* A teardown step that cleans up only a plugin whose init succeeded.
DestroyEntry_InitializedOnly(meta, i) ==
    [calls |-> (IF meta.cleanup /\ meta.initialized
                THEN <<PluginCall("cleanup", meta.name, i, 0)>> ELSE <<>>)
               \o <<PluginCall("dlclose", meta.handle, i, 0)>>]

\* The body of the loop of plugin_manager_destroy for registry entry i: the
\* entry's cleanup hook when it has one, then dlclose of its handle.
DestroyEntry(meta, i) ==
    [calls |-> (IF meta.cleanup
                THEN <<PluginCall("cleanup", meta.name, i, 0)>> ELSE <<>>)
               \o <<PluginCall("dlclose", meta.handle, i, 0)>>]

\* plugin_manager_destroy(manager, ctx)
plugin_manager_destroy(reg) ==
    CallsFrom([i \in 1..Len(reg) |-> DestroyEntry(reg[i], i)], 1)

PluginManagerCreate ==
    /\ registry = <<>>
    /\ plugin_event = NoPluginEvent
    /\ registry_mutex = "unlocked"

\* format_engine_configure(engine, config, output_file), called once by main.
FormatEngineConfigure(format_name) ==
    /\ output_format = ""
    /\ LET e == format_engine_configure(
                    [plugins |-> format_plugins, active |-> active_formatter], format_name)
       IN  /\ format_plugins' = e.plugins
           /\ active_formatter' = e.active
    /\ output_format' = format_name
    /\ UNCHANGED <<registry, plugin_event, filterVars, memVars, walkVars, lockVars, streamVars>>

\* plugin_manager_load_plugin(manager, path, ...), which
\* plugin_manager_configure runs for each configured plugin after main has
\* configured both engines.
PluginManagerLoadPlugin(lib) ==
    /\ output_format # ""
    /\ plugin_event.op # "destroy"
    /\ LET r == plugin_manager_load_plugin(ManagerState, lib)
       IN  /\ registry' = r.st.registry
           /\ format_plugins' = r.st.format_plugins
           /\ active_formatter' = r.st.active_formatter
           /\ filter_plugins' = r.st.filter_plugins
           /\ plugin_event' = [op |-> "load", lib |-> lib.path, ret |-> r.ret,
                               calls |-> r.calls]
    /\ UNCHANGED <<rules, rule_capacity, filter_config, query, output_format, memVars, walkVars, lockVars, streamVars>>

\* plugin_manager_configure(manager, config, format_engine, filter_engine)
\* with the plugin list of the command line: every entry is loaded in turn.
PluginManagerConfigure(plugins) ==
    /\ output_format # ""
    /\ plugin_event.op = "none"
    /\ LET st == plugin_manager_configure(ManagerState, plugins, 1)
       IN  /\ registry' = st.registry
           /\ format_plugins' = st.format_plugins
           /\ active_formatter' = st.active_formatter
           /\ filter_plugins' = st.filter_plugins
    /\ plugin_event' = [op |-> "configure", lib |-> "", ret |-> 0, calls |-> <<>>]
    /\ UNCHANGED <<rules, rule_capacity, filter_config, query, output_format, memVars, walkVars, lockVars, streamVars>>

\* plugin_manager_initialize_plugins(manager, ctx)
PluginManagerInitializePlugins ==
    /\ plugin_event.op # "destroy"
    /\ LET r == plugin_manager_initialize_plugins(registry)
       IN  /\ registry' = r.registry
           /\ plugin_event' = [op |-> "initialize", lib |-> "", ret |-> r.ret,
                               calls |-> r.calls]
    /\ UNCHANGED <<format_plugins, active_formatter, output_format, filterVars, memVars, walkVars, lockVars, streamVars>>

\* plugin_manager_destroy(manager, ctx): the manager and its registry are
\* freed after the loop.
PluginManagerDestroy ==
    /\ plugin_event.op # "destroy"
    /\ plugin_event' = [op |-> "destroy", lib |-> "", ret |-> 0,
                        calls |-> plugin_manager_destroy(registry)]
    /\ registry' = <<>>
    /\ UNCHANGED <<format_plugins, active_formatter, output_format, filterVars, memVars, walkVars, lockVars, streamVars>>

\* The library a registered plugin came from; a plugin's descriptor, the
\* struct its entry point returned, lives in that library.
LibraryNamed(name) == CHOOSE lib \in ProbeLibraries : lib.name = name

\* The handles dlclose has been called on in a run of calls.
ClosedHandles(calls) ==
    {calls[j].sym : j \in {k \in 1..Len(calls) : calls[k].op = "dlclose"}}

\* What reading a descriptor inside a library does once its handle is
\* closed: the loader has kept the library "mapped" and the read finds the
\* descriptor as it was, or it is "unmapped" and the read faults.
DanglingReads == {"mapped", "unmapped"}

\* The loop over engine->plugins that format_engine_destroy and
\* filter_engine_destroy share, from entry i on: the read of
\* plugins[i]->cleanup, and the call of the hook when it is not NULL. The
\* engine holds the pointer the entry point returned. A read that faults
\* ends the process (ret -1).
RECURSIVE EngineCleanupLoop(_, _, _, _)
EngineCleanupLoop(plugins, i, closed, read) ==
    IF i > Len(plugins) THEN <<>>
    ELSE IF plugins[i].lib = "builtin"
    THEN \* format_text_plugin, format_json_plugin: .cleanup = NULL
         EngineCleanupLoop(plugins, i + 1, closed, read)
    ELSE IF plugins[i].lib \in closed /\ read = "unmapped"
    THEN <<PluginCall("descriptor", plugins[i].lib, i, -1)>>
    ELSE <<PluginCall("descriptor", plugins[i].lib, i, 0)>>
         \o (IF LibraryNamed(plugins[i].name).cleanup
             THEN <<PluginCall("cleanup", plugins[i].name, i, 0)>> ELSE <<>>)
         \o EngineCleanupLoop(plugins, i + 1, closed, read)

\* Whether a run of calls ended in a fault.
Faulted(calls) == Len(calls) > 0 /\ calls[Len(calls)].ret = -1 /\ calls[Len(calls)].op = "descriptor"

\* format_engine_destroy(engine)
format_engine_destroy(plugins, closed, read) ==
    EngineCleanupLoop(plugins, 1, closed, read)

\* filter_engine_destroy(engine): the plugins' cleanup hooks; the rules
\* that follow have no context of a plugin's.
filter_engine_destroy(plugins, closed, read) ==
    EngineCleanupLoop([i \in 1..Len(plugins) |->
                          Formatter(plugins[i].name, LibraryNamed(plugins[i].name).path)],
                      1, closed, read)

\* main, cleanup: format_engine_destroy follows plugin_manager_destroy.
FormatEngineDestroy ==
    /\ plugin_event.op = "destroy"
    /\ \E read \in DanglingReads :
          \E calls \in {format_engine_destroy(format_plugins,
                                              ClosedHandles(plugin_event.calls), read)} :
              plugin_event' = [op |-> IF Faulted(calls) THEN "fault" ELSE "format_destroy",
                               lib |-> "", ret |-> 0,
                               calls |-> plugin_event.calls \o calls]
    /\ format_plugins' = <<>>
    /\ active_formatter' = NoFormatter
    /\ UNCHANGED <<output_format, registry, filterVars, memVars, walkVars, lockVars, streamVars>>

\* main, cleanup: filter_engine_destroy follows format_engine_destroy.
FilterEngineDestroy ==
    /\ plugin_event.op = "format_destroy"
    /\ \E read \in DanglingReads :
          \E calls \in {filter_engine_destroy(filter_plugins,
                                              ClosedHandles(plugin_event.calls), read)} :
              plugin_event' = [op |-> IF Faulted(calls) THEN "fault" ELSE "filter_destroy",
                               lib |-> "", ret |-> 0,
                               calls |-> plugin_event.calls \o calls]
    /\ filter_plugins' = <<>>
    /\ rules' = <<>>
    /\ UNCHANGED <<rule_capacity, filter_config, query, format_plugins, active_formatter,
                   output_format, registry, memVars, walkVars, lockVars, streamVars>>


(***************************************************************************)
(* The tracked allocator                                                   *)
(***************************************************************************)

\* Addresses malloc can return and the sizes the program asks for.
MaxBlocks == 2
MaxAllocs == 3
Addresses == 1..MaxBlocks
AllocSizes == {8, 16}
ReallocSizes == {0, 16}
MaxResizes == 2

\* A block of the C heap: whether malloc has it allocated, and what its
\* AllocationHeader and tail canary hold.
g_memory_magic == "MAGIC"
g_memory_freed_magic == "FREED_MAGIC"
g_memory_canary == "CANARY"
FreeBlock == [allocated |-> FALSE, magic |-> "NONE", size |-> 0, canary |-> "NONE"]

ZeroStats ==
    [total_allocated |-> 0, total_freed |-> 0, current_usage |-> 0,
     peak_usage |-> 0, allocation_count |-> 0, free_count |-> 0]

\* The buffer pool.  The program's pool has SMALL_BUFFER_COUNT = 20,
\* MEDIUM_BUFFER_COUNT = 10 and LARGE_BUFFER_COUNT = 5 buffers; the model
\* keeps the three tiers and their sizes with fewer buffers in each.  The
\* pointer to pool buffer i is i; the heap buffers malloc can hand out have
\* the pointers behind those.
SMALL_BUFFER_SIZE == 4096
MEDIUM_BUFFER_SIZE == 16384
LARGE_BUFFER_SIZE == 65536
SmallBuffers == 2
MediumBuffers == 2
LargeBuffers == 1
MaxFallback == 2
TOTAL_POOL_SIZE == SmallBuffers + MediumBuffers + LargeBuffers
PoolPointers == 1..TOTAL_POOL_SIZE
HeapPointers == (TOTAL_POOL_SIZE + 1)..(TOTAL_POOL_SIZE + MaxFallback)
PoolRequests == {100, SMALL_BUFFER_SIZE, SMALL_BUFFER_SIZE + 1, MEDIUM_BUFFER_SIZE + 1,
                 LARGE_BUFFER_SIZE + 1}

\* buffer_pool_create: the tiers in ascending order, nothing in use.
buffer_pool_create ==
    [buffer_sizes |-> [i \in PoolPointers |->
                          IF i <= SmallBuffers THEN SMALL_BUFFER_SIZE
                          ELSE IF i <= SmallBuffers + MediumBuffers THEN MEDIUM_BUFFER_SIZE
                          ELSE LARGE_BUFFER_SIZE],
     in_use |-> [i \in PoolPointers |-> FALSE],
     fallback |-> {}]

\* The best-fit scan of buffer_pool_get from index i on: best_index is 0
\* where the code has -1 (then best_size is SIZE_MAX, which every buffer
\* size is below).
RECURSIVE BestFit(_, _, _, _)
BestFit(pool, size, i, best_index) ==
    IF i > TOTAL_POOL_SIZE THEN best_index
    ELSE IF /\ ~pool.in_use[i]
            /\ pool.buffer_sizes[i] >= size
            /\ (best_index = 0 \/ pool.buffer_sizes[i] < pool.buffer_sizes[best_index])
         THEN BestFit(pool, size, i + 1, i)
         ELSE BestFit(pool, size, i + 1, best_index)

\* buffer_pool_get_LargestFit: a buffer_pool_get that takes the largest free
\* buffer that fits.
buffer_pool_get_LargestFit(pool, size, fresh) ==
    LET fits == {i \in PoolPointers : ~pool.in_use[i] /\ pool.buffer_sizes[i] >= size}
    IN  IF fits # {}
        THEN LET i == CHOOSE k \in fits : \A j \in fits : j <= k
             IN  [pool |-> [pool EXCEPT !.in_use[i] = TRUE], ret |-> i]
        ELSE [pool |-> [pool EXCEPT !.fallback = @ \cup {fresh}], ret |-> fresh]

\* buffer_pool_get: the best-fit pool buffer is marked in use and returned;
\* with none, malloc's buffer (fresh) is returned.
buffer_pool_get(pool, size, fresh) ==
    LET best_index == BestFit(pool, size, 1, 0)
    IN  IF best_index # 0
        THEN [pool |-> [pool EXCEPT !.in_use[best_index] = TRUE], ret |-> best_index]
        ELSE [pool |-> [pool EXCEPT !.fallback = @ \cup {fresh}], ret |-> fresh]

\* buffer_pool_release_KeepsFlag: a buffer_pool_release that finds the pool
\* buffer and returns without clearing its flag.
buffer_pool_release_KeepsFlag(pool, buffer) ==
    IF buffer \in PoolPointers
    THEN [pool |-> pool, freed |-> 0]
    ELSE [pool |-> [pool EXCEPT !.fallback = @ \ {buffer}], freed |-> buffer]

\* buffer_pool_release_FreesPoolBuffer: a buffer_pool_release that hands
\* every buffer to free(), pool buffers included.
buffer_pool_release_FreesPoolBuffer(pool, buffer) ==
    IF buffer \in PoolPointers
    THEN [pool |-> [pool EXCEPT !.in_use[buffer] = FALSE], freed |-> buffer]
    ELSE [pool |-> [pool EXCEPT !.fallback = @ \ {buffer}], freed |-> buffer]

\* buffer_pool_release: a pointer equal to some pool->buffers[i] clears
\* in_use[i]; any other pointer is handed to free() (freed).
buffer_pool_release(pool, buffer) ==
    IF buffer \in PoolPointers
    THEN [pool |-> [pool EXCEPT !.in_use[buffer] = FALSE], freed |-> 0]
    ELSE [pool |-> [pool EXCEPT !.fallback = @ \ {buffer}], freed |-> buffer]

NoPoolEvent == [op |-> "none", size |-> 0, ptr |-> 0, freed |-> 0]

\* buffer_pool_get(pool, size) called by the program; malloc, when it is
\* reached, returns a buffer that is not live.
BufferPoolGet(size, fresh) ==
    /\ BestFit(buffer_pool, size, 1, 0) = 0 => fresh \notin buffer_pool.fallback
    /\ LET r == buffer_pool_get(buffer_pool, size, fresh) IN
       /\ buffer_pool' = r.pool
       /\ pool_event' = [op |-> "get", size |-> size, ptr |-> r.ret, freed |-> 0]
    /\ UNCHANGED <<heap, mem_handles, mem_stats, track_allocations, mem_event>>

\* buffer_pool_release(pool, buffer) on a buffer the program got from
\* buffer_pool_get and has not released yet.
BufferPoolRelease(buffer) ==
    /\ \/ buffer \in PoolPointers /\ buffer_pool.in_use[buffer]
       \/ buffer \in buffer_pool.fallback
    /\ LET r == buffer_pool_release(buffer_pool, buffer) IN
       /\ buffer_pool' = r.pool
       /\ pool_event' = [op |-> "release", size |-> 0, ptr |-> buffer, freed |-> r.freed]
    /\ UNCHANGED <<heap, mem_handles, mem_stats, track_allocations, mem_event>>

NoEvent == [op |-> "none", handle |-> 0, report |-> "none", ret |-> 0]

\* memory_manager_create: zeroed statistics, a fresh buffer pool, tracking on.
MemoryManagerCreate ==
    /\ heap = [a \in Addresses |-> FreeBlock]
    /\ mem_handles = <<>>
    /\ mem_stats = ZeroStats
    /\ track_allocations = TRUE
    /\ mem_event = NoEvent
    /\ buffer_pool = buffer_pool_create
    /\ pool_event = NoPoolEvent

\* The statistics update of memory_alloc.
StatsAfterAlloc(stats, size) ==
    LET usage == stats.current_usage + size
    IN  [stats EXCEPT !.total_allocated = @ + size,
                      !.current_usage = usage,
                      !.allocation_count = @ + 1,
                      !.peak_usage = IF usage > @ THEN usage ELSE @]

\* The statistics update of memory_free. The counters are of type size_t;
\* the model keeps the mathematical value of each, so that a negative
\* value stands for a counter that has wrapped around below zero.
StatsAfterFree(stats, size) ==
    [stats EXCEPT !.current_usage = @ - size,
                  !.total_freed = @ + size,
                  !.free_count = @ + 1]

\* memory_alloc on st = [heap, stats, track]: malloc hands out the block at
\* addr; the header and the tail canary are written, the statistics
\* updated, and the user pointer returned.
memory_alloc(st, size, addr) ==
    [heap |-> [st.heap EXCEPT ![addr] =
                  [allocated |-> TRUE, magic |-> g_memory_magic,
                   size |-> size, canary |-> g_memory_canary]],
     stats |-> IF st.track THEN StatsAfterAlloc(st.stats, size) ELSE st.stats,
     ret |-> addr,
     report |-> "none"]

\* What a read of header->magic sees.  For a block malloc has allocated it
\* is the stored word.  For a block already given back to the C allocator
\* the read is a use after free: the word may still be what was last stored
\* there, or the allocator may have reused the bytes for its own bookkeeping.
HeaderMagicSeen(addr) ==
    IF heap[addr].allocated THEN {heap[addr].magic}
    ELSE {heap[addr].magic, "GARBAGE"}

\* memory_free_RefusesOverflow: a memory_free that also refuses a block
\* whose tail canary is corrupted, leaking it.
memory_free_RefusesOverflow(st, addr, seen) ==
    IF seen = g_memory_freed_magic
    THEN [heap |-> st.heap, stats |-> st.stats, ret |-> 0, report |-> "double-free"]
    ELSE IF seen # g_memory_magic
    THEN [heap |-> st.heap, stats |-> st.stats, ret |-> 0, report |-> "header corruption"]
    ELSE IF st.heap[addr].canary # g_memory_canary
    THEN [heap |-> st.heap, stats |-> st.stats, ret |-> 0, report |-> "buffer overflow"]
    ELSE [heap |-> [st.heap EXCEPT ![addr] =
                       [@ EXCEPT !.allocated = FALSE, !.magic = g_memory_freed_magic]],
          stats |-> IF st.track THEN StatsAfterFree(st.stats, st.heap[addr].size)
                    ELSE st.stats,
          ret |-> 0,
          report |-> "released"]

\* memory_free on the block at addr, the header read giving seen: a freed
\* or foreign header refuses the call; a corrupted tail canary only warns.
memory_free(st, addr, seen) ==
    IF seen = g_memory_freed_magic
    THEN [heap |-> st.heap, stats |-> st.stats, ret |-> 0, report |-> "double-free"]
    ELSE IF seen # g_memory_magic
    THEN [heap |-> st.heap, stats |-> st.stats, ret |-> 0, report |-> "header corruption"]
    ELSE [heap |-> [st.heap EXCEPT ![addr] =
                       [@ EXCEPT !.allocated = FALSE, !.magic = g_memory_freed_magic]],
          stats |-> IF st.track THEN StatsAfterFree(st.stats, st.heap[addr].size)
                    ELSE st.stats,
          ret |-> 0,
          report |-> IF st.heap[addr].canary = g_memory_canary
                     THEN "released" ELSE "buffer overflow"]

\* A statistics update of memory_realloc that adds the new size without
\* taking the old one off.
StatsAfterRealloc_AddsOnly(stats, old_size, size) ==
    LET usage == stats.current_usage + size
    IN  [stats EXCEPT !.current_usage = usage,
                      !.total_allocated = @ + size,
                      !.allocation_count = @ + 1,
                      !.peak_usage = IF usage > @ THEN usage ELSE @]

\* The statistics update of memory_realloc.
StatsAfterRealloc(stats, old_size, size) ==
    LET usage == stats.current_usage - old_size + size
    IN  [stats EXCEPT !.current_usage = usage,
                      !.total_allocated = @ + size,
                      !.allocation_count = @ + 1,
                      !.peak_usage = IF usage > @ THEN usage ELSE @]

\* memory_realloc_Unchecked: a memory_realloc that resizes without looking
\* at the header magic and the tail canary.
memory_realloc_Unchecked(st, addr, size, seen, new_addr) ==
    IF addr = 0 THEN memory_alloc(st, size, new_addr)
    ELSE IF size = 0 THEN memory_free(st, addr, seen)
    ELSE [heap |-> [st.heap EXCEPT ![addr] = [@ EXCEPT !.size = size]],
          stats |-> st.stats, ret |-> addr, report |-> "none"]

\* memory_realloc_KeepsBlock: a memory_realloc whose size-0 case returns
\* NULL without releasing the block.
memory_realloc_KeepsBlock(st, addr, size, seen, new_addr) ==
    IF addr = 0 THEN memory_alloc(st, size, new_addr)
    ELSE [heap |-> st.heap, stats |-> st.stats, ret |-> 0, report |-> "none"]

\* memory_realloc on the block at addr (0 for NULL): the C allocator's
\* realloc resizes in place (new_addr = addr), moves the block to new_addr,
\* or fails (new_addr = 0).  A block that moved leaves its old bytes behind.
memory_realloc(st, addr, size, seen, new_addr) ==
    IF addr = 0 THEN memory_alloc(st, size, new_addr)
    ELSE IF size = 0 THEN memory_free(st, addr, seen)
    ELSE IF seen # g_memory_magic
    THEN [heap |-> st.heap, stats |-> st.stats, ret |-> 0, report |-> "header corruption"]
    ELSE IF st.heap[addr].canary # g_memory_canary
    THEN [heap |-> st.heap, stats |-> st.stats, ret |-> 0, report |-> "buffer overflow"]
    ELSE IF new_addr = 0
    THEN [heap |-> st.heap, stats |-> st.stats, ret |-> 0, report |-> "out of memory"]
    ELSE [heap |-> [a \in Addresses |->
                       IF a = new_addr
                       THEN [allocated |-> TRUE, magic |-> g_memory_magic,
                             size |-> size, canary |-> g_memory_canary]
                       ELSE IF a = addr THEN [st.heap[a] EXCEPT !.allocated = FALSE]
                       ELSE st.heap[a]],
          stats |-> IF st.track
                    THEN StatsAfterRealloc(st.stats, st.heap[addr].size, size)
                    ELSE st.stats,
          ret |-> new_addr,
          report |-> "resized"]

\* The allocator's state as the operators above take it.
MemoryState == [heap |-> heap, stats |-> mem_stats, track |-> track_allocations]

\* memory_alloc(manager, size): malloc returns any block it does not have
\* allocated, a block freed earlier included.
MemoryAlloc(size, addr) ==
    /\ Len(mem_handles) < MaxAllocs
    /\ ~heap[addr].allocated
    /\ LET r == memory_alloc(MemoryState, size, addr) IN
       /\ heap' = r.heap
       /\ mem_stats' = r.stats
       /\ mem_event' = [op |-> "alloc", handle |-> Len(mem_handles) + 1,
                        report |-> r.report, ret |-> r.ret]
    /\ mem_handles' = Append(mem_handles, [addr |-> addr, freed |-> FALSE])
    /\ UNCHANGED <<track_allocations, buffer_pool, pool_event>>

\* memory_free(manager, ptr) on the pointer the program holds as handle h.
MemoryFree(h, seen) ==
    /\ h \in 1..Len(mem_handles)
    /\ seen \in HeaderMagicSeen(mem_handles[h].addr)
    /\ LET r == memory_free(MemoryState, mem_handles[h].addr, seen) IN
       /\ heap' = r.heap
       /\ mem_stats' = r.stats
       /\ mem_event' = [op |-> "free", handle |-> h, report |-> r.report, ret |-> r.ret]
       /\ mem_handles' = [mem_handles EXCEPT ![h].freed =
                             @ \/ r.report # "header corruption"]
    /\ UNCHANGED <<track_allocations, buffer_pool, pool_event>>

\* memory_realloc(manager, ptr, size) on the pointer held as handle h (0 for
\* a NULL pointer); the program keeps the pointer returned, or its old
\* pointer when NULL comes back for a non-zero size.
MemoryRealloc(h, size, seen, new_addr) ==
    /\ h \in 0..Len(mem_handles)
    /\ h = 0 => /\ Len(mem_handles) < MaxAllocs
                /\ size # 0
                /\ new_addr # 0
                /\ seen = g_memory_magic
    /\ h # 0 => /\ ~mem_handles[h].freed
                /\ seen \in HeaderMagicSeen(mem_handles[h].addr)
    /\ new_addr # 0 => \/ ~heap[new_addr].allocated
                       \/ h # 0 /\ new_addr = mem_handles[h].addr
    /\ (size # 0 /\ new_addr # 0) => mem_stats.allocation_count < MaxResizes
    /\ LET addr == IF h = 0 THEN 0 ELSE mem_handles[h].addr
           r == memory_realloc(MemoryState, addr, size, seen, new_addr)
       IN  /\ heap' = r.heap
           /\ mem_stats' = r.stats
           /\ mem_event' = [op |-> "realloc", handle |-> h, report |-> r.report,
                            ret |-> r.ret]
           /\ mem_handles' =
                 IF h = 0 THEN Append(mem_handles, [addr |-> r.ret, freed |-> FALSE])
                 ELSE IF size = 0
                 THEN [mem_handles EXCEPT ![h].freed = @ \/ r.report # "header corruption"]
                 ELSE IF r.ret # 0 THEN [mem_handles EXCEPT ![h].addr = r.ret]
                 ELSE mem_handles
    /\ UNCHANGED <<track_allocations, buffer_pool, pool_event>>

\* memory_enable_tracking(manager, enable)
MemoryEnableTracking(enable) ==
    /\ track_allocations' = enable
    /\ mem_event' = [op |-> "enable_tracking", handle |-> 0, report |-> "none", ret |-> 0]
    /\ UNCHANGED <<heap, mem_handles, mem_stats, buffer_pool, pool_event>>

\* A block whose header magic or tail canary a stray write has changed.
Corrupted(block) == block.magic = "GARBAGE" \/ block.canary = "GARBAGE"

\* A write by the owner of a live allocation that runs outside its user
\* bytes: below them into the header's magic, or past them into the tail
\* canary.  One live block at a time is damaged.
CorruptBlock(h, part) ==
    /\ h \in 1..Len(mem_handles)
    /\ ~mem_handles[h].freed
    /\ heap[mem_handles[h].addr].allocated
    /\ \A a \in Addresses : heap[a].allocated => ~Corrupted(heap[a])
    /\ heap' = [heap EXCEPT ![mem_handles[h].addr] =
                   IF part = "header" THEN [@ EXCEPT !.magic = "GARBAGE"]
                   ELSE [@ EXCEPT !.canary = "GARBAGE"]]
    /\ heap' # heap
    /\ mem_event' = [op |-> "write", handle |-> h, report |-> part, ret |-> 0]
    /\ UNCHANGED <<mem_handles, mem_stats, track_allocations, buffer_pool, pool_event>>

(***************************************************************************)
(* The directory trees the driver is run on                                *)
(***************************************************************************)

MAX_FILE_SIZE == 1073741824
MAX_DIRECTORY_DEPTH == 256
MAX_VISITED_DIRS == 256
DIR_STACK_INITIAL_CAPACITY == 256

\* An inode is a directory (its entries in readdir order, "." and ".."
\* left out as the loop skips them) or a regular file (its size and the
\* offsets of its NUL bytes); openable says whether opendir/fopen succeed.
\* The inode number stands for the (st_dev, st_ino) pair.
Dir(entries) ==
    [kind |-> "dir", entries |-> entries, size |-> 0, nuls |-> {}, openable |-> TRUE,
     statable |-> TRUE]
LockedDir ==
    [kind |-> "dir", entries |-> <<>>, size |-> 0, nuls |-> {}, openable |-> FALSE,
     statable |-> TRUE]
File(size, nuls) ==
    [kind |-> "file", entries |-> <<>>, size |-> size, nuls |-> nuls, openable |-> TRUE,
     statable |-> TRUE]
LockedFile ==
    [kind |-> "file", entries |-> <<>>, size |-> 10, nuls |-> {}, openable |-> FALSE,
     statable |-> TRUE]
\* A directory that is gone by the time stat is called on it.
GoneDir ==
    [kind |-> "dir", entries |-> <<>>, size |-> 0, nuls |-> {}, openable |-> FALSE,
     statable |-> FALSE]

\* A directory entry: its name, what lstat says it is, and the inode it
\* names; for a symlink, the inode it resolves to (0 when it dangles) and
\* the length of its target text, which is its lstat size.
Entry(name, type, ino) == [name |-> name, type |-> type, ino |-> ino, text_len |-> 0]
Symlink(name, ino, text_len) ==
    [name |-> name, type |-> "symlink", ino |-> ino, text_len |-> text_len]

\* A tree with self-referential and mutually-referential symlink cycles and
\* one directory reachable under two names.
TreeCycles ==
    <<Dir(<<Entry(<<"a">>, "dir", 2), Symlink(<<"l">>, 1, 1),
            Entry(<<"f">>, "file", 3), Entry(<<"h">>, "dir", 2)>>),
      Dir(<<Symlink(<<"u">>, 1, 2), Symlink(<<"b">>, 2, 1),
            Entry(<<"g">>, "file", 4), Symlink(<<"x">>, 0, 4)>>),
      File(10, {}),
      File(10, {0})>>

\* A flat tree of files: text, binary from the first byte, binary from the
\* second 16 KB chunk on, a NUL only beyond a chunk's first 1024 bytes, empty,
\* over the size limit, unreadable, the output file itself, a symlink to a
\* file, and an unreadable directory.
TreeFiles ==
    <<Dir(<<Entry(S_main_c, "file", 2), Entry(<<"b">>, "file", 3),
            Entry(<<"l", "a", "t", "e">>, "file", 4), Entry(<<"m", "i", "d">>, "file", 5),
            Entry(<<"e">>, "file", 6), Entry(<<"b", "i", "g">>, "file", 7),
            Entry(<<"n", "o">>, "file", 8), Entry(S_out, "file", 9),
            Symlink(<<"s">>, 2, 6), Entry(S_d, "dir", 10)>>),
      File(10, {}),
      File(10, {0}),
      File(20000, {16384}),
      File(5000, {2000}),
      File(0, {}),
      File(MAX_FILE_SIZE + 1, {}),
      LockedFile,
      File(0, {}),
      LockedDir>>

\* A chain of nested directories one deeper than the directory stack holds;
\* the directory at the stack's last-but-one level also holds a symlink to
\* itself.
ChainLength == DIR_STACK_INITIAL_CAPACITY + 1

TreeChain ==
    [i \in 1..ChainLength |->
        IF i = ChainLength THEN Dir(<<>>)
        ELSE IF i = DIR_STACK_INITIAL_CAPACITY - 1
        THEN Dir(<<Entry(<<"s">>, "dir", i + 1), Symlink(<<"k">>, i, 1)>>)
        ELSE Dir(<<Entry(<<"s">>, "dir", i + 1)>>)]

\* A tree with a subtree two levels deep and, after it in readdir order, an
\* entry lstat fails on, a directory stat fails on, a directory opendir
\* fails on, and two plain files.
TreeFaults ==
    <<Dir(<<Entry(<<"a">>, "dir", 2), Entry(<<"n">>, "gone", 0),
            Entry(<<"v">>, "dir", 3), Entry(<<"d">>, "dir", 4),
            Entry(<<"f">>, "file", 5), Entry(<<"z">>, "file", 6)>>),
      Dir(<<Entry(<<"g">>, "file", 7), Entry(<<"q">>, "dir", 8)>>),
      GoneDir,
      LockedDir,
      File(10, {}),
      File(10, {}),
      File(10, {}),
      Dir(<<Entry(<<"r">>, "file", 9)>>),
      File(10, {})>>

\* The chain again, with a file after the subdirectory in every directory
\* and a file in the deepest one.
TreeDeep ==
    [i \in 1..(ChainLength + 2) |->
        IF i = ChainLength THEN Dir(<<Entry(<<"u">>, "file", ChainLength + 2)>>)
        ELSE IF i > ChainLength THEN File(10, {})
        ELSE Dir(<<Entry(<<"s">>, "dir", i + 1),
                   Entry(<<"t">>, "file", ChainLength + 1)>>)]

Trees == {"cycles", "files", "chain"}

FileSystem(t) ==
    CASE t = "cycles" -> TreeCycles
      [] t = "files" -> TreeFiles
      [] t = "chain" -> TreeChain
      [] t = "faults" -> TreeFaults
      [] t = "deep" -> TreeDeep
      [] t = "noroot" -> <<GoneDir>>
      [] t = "lockedroot" -> <<LockedDir>>
      [] OTHER -> <<Dir(<<>>)>>

RootInode == 1

\* The command lines of the runs: the output file inside the input
\* directory, binaries skipped, each way of handling symlinks.
RunConfigs ==
    {ResolvedConfig("BINARY_SKIP", sym, "text", InputDirectory,
                    InputDirectory \o <<"/">> \o S_out, <<>>, <<>>) :
        sym \in {"SYMLINK_FOLLOW", "SYMLINK_SKIP", "SYMLINK_INCLUDE"}}

MaxFailFrom == 2

\* The runs: the small trees under every configuration and output failure
\* point, the deep chain with followed symlinks and a working output.
RunInputs ==
    {<<t, c, f>> : t \in {"cycles", "files"}, c \in RunConfigs, f \in 0..MaxFailFrom}
    \cup {<<"chain", c, 0>> : c \in {r \in RunConfigs : r.symlink_handling = "SYMLINK_FOLLOW"}}

\* The faults of a run.
Faults(writer_code, no_buffer, no_stack) ==
    [writer_code |-> writer_code, no_buffer |-> no_buffer, no_stack |-> no_stack]

\* The output device fails with -1; every allocation succeeds.
NoFaults == Faults(-1, {}, "never")

MaxCallbackFail == 13

\* The configurations of the runs with faults: no pattern, or directory "a"
\* excluded.
FaultConfigs ==
    {ResolvedConfig("BINARY_SKIP", "SYMLINK_SKIP", "text", InputDirectory, OutsideOutput,
                    excludes, <<>>) : excludes \in {<<>>, << <<"a">> >>}}

PlainConfig ==
    ResolvedConfig("BINARY_SKIP", "SYMLINK_SKIP", "text", InputDirectory, OutsideOutput,
                   <<>>, <<>>)

\* The runs with faults: the small tree with a writer that fails at any of
\* its calls with either code, with a file that gets no read buffer, with a
\* directory stack that cannot be allocated; a root that stat or opendir
\* fails on; the deep chain.
FaultInputs ==
    {<<"faults", c, f, Faults(code, {}, "never")>> :
        c \in FaultConfigs, f \in 0..MaxCallbackFail, code \in {-1, 2}}
    \cup {<<"faults", PlainConfig, 0, Faults(-1, b, "never")>> : b \in {{5}, {7}}}
    \cup {<<"faults", PlainConfig, 0, Faults(-1, {}, pass)>> :
              pass \in {"structure", "content"}}
    \cup {<<t, PlainConfig, 0, NoFaults>> : t \in {"noroot", "lockedroot", "deep"}}

(***************************************************************************)
(* Content filtering of one chunk                                          *)
(***************************************************************************)

\* A chunk fread returned: the bytes [offset, offset + size) of a file.
Chunk(file, offset, size) == [nuls |-> file.nuls, offset |-> offset, size |-> size]

Min(a, b) == IF a < b THEN a ELSE b

\* binary_match_content: a NUL among the chunk's first 1024 bytes.
binary_match_content(chunk, context) ==
    IF context = NullContext THEN 0
    ELSE IF \E n \in chunk.nuls :
                n >= chunk.offset /\ n < chunk.offset + Min(chunk.size, 1024)
         THEN 1 ELSE 0

\* filter_engine_should_include_content over the rules with a content
\* matcher; the plugins of the model have no should_include_content hook.
RECURSIVE ContentRuleLoop(_, _, _)
ContentRuleLoop(rs, i, chunk) ==
    IF i > Len(rs) THEN 1
    ELSE IF rs[i].match_content # NULL
         THEN LET r == binary_match_content(chunk, rs[i].context) IN
              IF rs[i].type = FILTER_TYPE_EXCLUDE /\ r # 0 THEN 0
              ELSE IF rs[i].type = FILTER_TYPE_INCLUDE /\ r = 0 THEN 0
              ELSE ContentRuleLoop(rs, i + 1, chunk)
         ELSE ContentRuleLoop(rs, i + 1, chunk)

filter_engine_should_include_content(rs, chunk) == ContentRuleLoop(rs, 1, chunk)

\* A transform function of a caller or of a plugin: what it returns and the
\* buffer it stores, which holds the data it was given followed by its tag.
user_transform(input, t) ==
    [ret |-> t.ret, has_data |-> t.has_data,
     data |-> [size |-> input.size + 1, data |-> Append(input.data, t.tag)]]

\* A transform chain that runs the Transform rules by descending priority.
RECURSIVE TransformLoop_ByPriority(_, _, _)
TransformLoop_ByPriority(rs, i, data) ==
    LET left == {k \in i..Len(rs) : rs[k].type = FILTER_TYPE_TRANSFORM
                                       /\ rs[k].transform # NULL}
    IN  IF left = {} THEN data
        ELSE LET k == CHOOSE k \in left : \A j \in left :
                          rs[k].priority > rs[j].priority
                          \/ (rs[k].priority = rs[j].priority /\ k <= j)
                 r == user_transform(data, rs[k].context)
             IN  TransformLoop_ByPriority(
                     [j \in 1..Len(rs) |-> IF j = k THEN [rs[j] EXCEPT !.transform = NULL]
                                           ELSE rs[j]], i,
                     CASE rs[k].transform = "user_transform" ->
                            IF r.ret = 0 /\ r.has_data THEN r.data ELSE data
                       [] rs[k].transform = "binary_transform"
                          /\ rs[k].context.handling = "BINARY_PLACEHOLDER" ->
                            [size |-> 39, data |-> <<"binary placeholder">>]
                       [] rs[k].transform = "symlink_transform"
                          /\ rs[k].context.handling = "SYMLINK_PLACEHOLDER" ->
                            [size |-> 39, data |-> <<"symlink placeholder">>]
                       [] OTHER -> data)

\* The rule loop of filter_engine_transform_content from rule i on: every
\* Transform rule with a transform function is called on the current data,
\* and its buffer becomes the current data when it returns 0 and stored one.
\* binary_transform and symlink_transform replace the data by their
\* placeholder text under the placeholder handling only: 39 bytes for the
\* binary one, and for the symlink one when readlink fails on the path it is
\* given.
RECURSIVE TransformLoop(_, _, _)
TransformLoop(rs, i, data) ==
    IF i > Len(rs) THEN data
    ELSE IF /\ rs[i].type = FILTER_TYPE_TRANSFORM
            /\ rs[i].transform = "binary_transform"
            /\ rs[i].context.handling = "BINARY_PLACEHOLDER"
         THEN TransformLoop(rs, i + 1, [size |-> 39, data |-> <<"binary placeholder">>])
         ELSE IF /\ rs[i].type = FILTER_TYPE_TRANSFORM
                 /\ rs[i].transform = "symlink_transform"
                 /\ rs[i].context.handling = "SYMLINK_PLACEHOLDER"
         THEN TransformLoop(rs, i + 1, [size |-> 39, data |-> <<"symlink placeholder">>])
         ELSE IF /\ rs[i].type = FILTER_TYPE_TRANSFORM
                 /\ rs[i].transform = "user_transform"
         THEN LET r == user_transform(data, rs[i].context)
              IN  TransformLoop(rs, i + 1, IF r.ret = 0 /\ r.has_data THEN r.data ELSE data)
         ELSE TransformLoop(rs, i + 1, data)

\* The plugin loop of filter_engine_transform_content from plugin i on.
RECURSIVE PluginTransformLoop(_, _, _)
PluginTransformLoop(ps, i, data) ==
    IF i > Len(ps) THEN data
    ELSE IF ps[i].transform_content.present
         THEN LET r == user_transform(data, ps[i].transform_content.hook)
              IN  PluginTransformLoop(ps, i + 1,
                      IF r.ret = 0 /\ r.has_data THEN r.data ELSE data)
         ELSE PluginTransformLoop(ps, i + 1, data)

\* filter_engine_transform_content(engine, ctx, path, input, input_size,
\* output, output_size): a copy of the input goes through the rules, then
\* through the plugins; memory_get_buffer is taken to succeed.
filter_engine_transform_content(rs, ps, input) ==
    PluginTransformLoop(ps, 1, TransformLoop(rs, 1, input))

\* filter_engine_transform_content called on the engine as it now stands; query
\* records the call and its output.
FilterEngineTransformContent(input) ==
    /\ filter_config # NoConfig
    /\ query' = [asked |-> TRUE, op |-> "transform_content", input |-> input,
                 output |-> filter_engine_transform_content(rules, filter_plugins, input)]
    /\ UNCHANGED <<rules, rule_capacity, filter_plugins, filter_config>>
    /\ UNCHANGED <<formatVars, memVars, walkVars, lockVars, streamVars>>

(***************************************************************************)
(* The stream buffer                                                       *)
(***************************************************************************)

MAX_STREAM_BUFFER_SIZE == 268435456

\* No stream buffer yet, and no stream_buffer_write in progress.
NoStreamBuffer == [created |-> FALSE, size |-> 0, capacity |-> 0]
NoStreamWrite == [pc |-> "idle", size |-> 0, new_capacity |-> 0, target |-> 0, ret |-> 0,
                  calls |-> 0]

\* The capacities a buffer is created with, and the sizes written.
StreamCapacities == {0, 1, 16, MAX_STREAM_BUFFER_SIZE \div 2 + 1, MAX_STREAM_BUFFER_SIZE}
StreamWriteSizes == {0, 1, 100, MAX_STREAM_BUFFER_SIZE \div 2, MAX_STREAM_BUFFER_SIZE}
MaxStreamWrites == 2

\* stream_buffer_create(manager, initial_size); the two allocations are
\* taken to succeed.
StreamBufferCreate(initial_size) ==
    /\ ~stream_buffer.created
    /\ stream_buffer' = [created |-> TRUE, size |-> 0, capacity |-> initial_size]
    /\ UNCHANGED stream_write

\* stream_buffer_write has returned ret.
StreamWriteReturns(ret) ==
    stream_write' = [stream_write EXCEPT !.pc = "idle", !.ret = ret]

\* stream_buffer_write(buffer, data, size) up to its while loop: a write
\* of nothing is refused; a write that fits is copied; else the loop is
\* entered with new_capacity = capacity and target = size + the size
\* written. The sizes of the model are far below SIZE_MAX, so that the
\* check of size against SIZE_MAX - size passes.
StreamBufferWriteCall(size) ==
    /\ stream_buffer.created
    /\ stream_write.pc = "idle"
    /\ stream_write.calls < MaxStreamWrites
    /\ IF size = 0
       THEN /\ stream_write' = [NoStreamWrite EXCEPT !.ret = -1,
                                                     !.calls = stream_write.calls + 1]
            /\ UNCHANGED stream_buffer
       ELSE IF stream_buffer.size + size > stream_buffer.capacity
       THEN /\ stream_write' = [pc |-> "loop", size |-> size,
                                new_capacity |-> stream_buffer.capacity,
                                target |-> stream_buffer.size + size, ret |-> 0,
                                calls |-> stream_write.calls + 1]
            /\ UNCHANGED stream_buffer
       ELSE /\ stream_buffer' = [stream_buffer EXCEPT !.size = @ + size]
            /\ stream_write' = [NoStreamWrite EXCEPT !.size = size,
                                                     !.calls = stream_write.calls + 1]

\* After the loop: the final limit check, memory_realloc (new_data is NULL
\* when it fails), the copy.
StreamBufferResize(new_capacity, new_data) ==
    IF new_capacity > MAX_STREAM_BUFFER_SIZE \/ new_data = NULL
    THEN StreamWriteReturns(-1) /\ UNCHANGED stream_buffer
    ELSE /\ stream_buffer' = [stream_buffer EXCEPT !.capacity = new_capacity,
                                                   !.size = @ + stream_write.size]
         /\ StreamWriteReturns(0)

\* One evaluation of the condition of the while loop and, when it holds,
\* one run of its body: past MAX_STREAM_BUFFER_SIZE / 2 the capacity is
\* set to the target when that is within the limit, else -1 is returned;
\* below, the capacity is doubled.
StreamBufferWriteLoop ==
    /\ stream_write.pc = "loop"
    /\ IF stream_write.new_capacity >= stream_write.target
       THEN \E new_data \in {NULL, "data"} :
                StreamBufferResize(stream_write.new_capacity, new_data)
       ELSE IF stream_write.new_capacity > MAX_STREAM_BUFFER_SIZE \div 2
       THEN IF stream_write.target <= MAX_STREAM_BUFFER_SIZE
            THEN \E new_data \in {NULL, "data"} :
                     StreamBufferResize(stream_write.target, new_data)
            ELSE StreamWriteReturns(-1) /\ UNCHANGED stream_buffer
       ELSE /\ stream_write' = [stream_write EXCEPT !.new_capacity = @ * 2]
            /\ UNCHANGED stream_buffer

(***************************************************************************)
(* Directory traversal and the two passes                                  *)
(***************************************************************************)

\* A Format Engine writer call: the wrapper called, the entry it is about
\* and, for write_file_chunk, the number of bytes handed over.
Call(op, name, size) == [op |-> op, name |-> name, size |-> size]

\* What the writer call just appended to the log returns: non-zero once the
\* output device has begun to fail.
WriterResult(log) ==
    IF fail_from > 0 /\ Len(log) >= fail_from THEN faults.writer_code ELSE 0

\* A run of writer calls whose results the driver checks: it stops at the
\* first one that fails.
RECURSIVE CheckedCalls(_, _, _)
CheckedCalls(log, ops, i) ==
    IF i > Len(ops) THEN [log |-> log, ret |-> 0]
    ELSE LET log1 == Append(log, Call(ops[i], <<>>, 0))
         IN  IF WriterResult(log1) # 0 THEN [log |-> log1, ret |-> WriterResult(log1)]
             ELSE CheckedCalls(log1, ops, i + 1)

visited_set_contains(set, ino) == \E i \in 1..Len(set) : set[i] = ino

visited_set_add(set, ino) ==
    IF Len(set) >= MAX_VISITED_DIRS THEN set ELSE Append(set, ino)

visited_set_pop(set) == IF Len(set) > 0 THEN SubSeq(set, 1, Len(set) - 1) ELSE set

\* A DirStackEntry: the directory's inode, its level, the name it was entered
\* under (its relative_path is its parent's joined with that name) and how
\* many entries readdir has returned from its handle.
DirStackEntry(ino, level, name) ==
    [inode |-> ino, level |-> level, name |-> name, pos |-> 0]

dir_stack_push(st, entry) ==
    IF Len(st) >= DIR_STACK_INITIAL_CAPACITY THEN [stack |-> st, ret |-> -1]
    ELSE [stack |-> Append(st, entry), ret |-> 0]

dir_stack_peek(st) == st[Len(st)]

\* A pop that leaves the stack as it is.
dir_stack_pop_Keeps(st) == st

dir_stack_pop(st) == IF Len(st) > 0 THEN SubSeq(st, 1, Len(st) - 1) ELSE st

build_relative_path(current_rel, name) ==
    IF Len(current_rel) = 0 THEN name ELSE current_rel \o <<"/">> \o name

\* The names of stack entries lo..hi joined by '/'.
RECURSIVE JoinNames(_, _, _)
JoinNames(st, lo, hi) ==
    IF lo = hi THEN st[lo].name
    ELSE LET mid == (lo + hi) \div 2
         IN  JoinNames(st, lo, mid) \o <<"/">> \o JoinNames(st, mid + 1, hi)

\* The relative_path field of the i-th stack entry: "" for the root, else
\* build_relative_path of its parent's and its name.
FrameRelativePath(st, i) == IF i <= 1 THEN <<>> ELSE JoinNames(st, 2, i)

\* st_size as lstat reports it for an entry.
LstatSize(fs, entry) ==
    CASE entry.type = "file" -> fs[entry.ino].size
      [] entry.type = "symlink" -> entry.text_len
      [] OTHER -> 4096

\* structure_callback: one write_directory or write_file_entry call, whose
\* result it returns.
structure_callback(log, entry, is_directory) ==
    LET log1 == Append(log, Call(IF is_directory THEN "write_directory"
                                 ELSE "write_file_entry", entry.name, 0))
    IN  [log |-> log1, ret |-> WriterResult(log1), warnings |-> {}]

\* The fread loop of content_callback from a file offset on: each chunk is
\* put to the content filter and, if it passes, written as transformed; the
\* first chunk the filter excludes ends the loop.
RECURSIVE ReadLoop(_, _, _, _, _, _)
ReadLoop(rs, file, name, buffer_size, offset, log) ==
    IF offset >= file.size THEN [log |-> log, content_excluded |-> FALSE]
    ELSE LET bytes_read == Min(buffer_size, file.size - offset)
             chunk == Chunk(file, offset, bytes_read)
         IN  IF filter_engine_should_include_content(rs, chunk) = 0
             THEN [log |-> log, content_excluded |-> TRUE]
             ELSE ReadLoop(rs, file, name, buffer_size, offset + bytes_read,
                      Append(log, Call("write_file_chunk", name,
                                       filter_engine_transform_content(
                                           rs, filter_plugins,
                                           [size |-> chunk.size,
                                            data |-> <<"original">>]).size)))

\* The chunk size content_callback reads with.
BufferSize(size) ==
    IF size > 0 /\ size < 4096 THEN size
    ELSE IF size < 16384 THEN 4096
    ELSE 16384

\* content_callback.  fopen follows a symlink to its target; on a directory
\* it succeeds and fread returns nothing.  When memory_get_buffer returns
\* NULL the error is reported and -1 returned.
content_callback(rs, fs, log, entry, is_directory, size) ==
    IF is_directory THEN [log |-> log, ret |-> 0, warnings |-> {}]
    ELSE LET log1 == Append(log, Call("write_file_header", entry.name, 0)) IN
         IF WriterResult(log1) # 0
         THEN [log |-> log1, ret |-> WriterResult(log1), warnings |-> {}]
         ELSE IF size > MAX_FILE_SIZE
         THEN [log |-> log1, ret |-> 0, warnings |-> {"file too large"}]
         ELSE IF entry.ino = 0 \/ ~fs[entry.ino].openable
         THEN [log |-> log1, ret |-> 0, warnings |-> {"cannot open file"}]
         ELSE IF entry.ino \in faults.no_buffer
         THEN [log |-> log1, ret |-> -1, warnings |-> {}]
         ELSE LET r == ReadLoop(rs, fs[entry.ino], entry.name, BufferSize(size), 0, log1)
              IN  [log |-> IF r.content_excluded THEN r.log
                           ELSE Append(r.log, Call("write_file_footer", entry.name, 0)),
                   ret |-> 0, warnings |-> {}]

\* A break that returns -1 whatever the callback returned.
TraverseBreak_MinusOne(cb, w) ==
    [stack |-> <<>>, visited |-> <<>>, dirs |-> open_dirs - Len(stack), log |-> cb.log,
     warnings |-> w, ret |-> -1]

\* A break that destroys the stack without closing the handles of its
\* frames.
TraverseBreak_LeavesOpen(cb, w) ==
    [stack |-> <<>>, visited |-> <<>>, dirs |-> open_dirs, log |-> cb.log, warnings |-> w,
     ret |-> cb.ret]

\* callback_result != 0: result = callback_result and break; the stack is
\* destroyed, which closes the handle of each frame still on it, and the
\* callback's result returned.
TraverseBreak(cb, w) ==
    [stack |-> <<>>, visited |-> <<>>, dirs |-> open_dirs - Len(stack), log |-> cb.log,
     warnings |-> w, ret |-> cb.ret]

\* A failed push that leaves the subdirectory open.
StackFull_LeavesOpen(st, vis, dirs, log, w) ==
    [stack |-> st, visited |-> visited_set_pop(vis), dirs |-> dirs, log |-> log,
     warnings |-> w \cup {"directory stack full"}, ret |-> 0]

\* dir_stack_push has failed: closedir(subdir), visited_set_pop and the
\* warning; the loop goes on with the next entry.
StackFull(st, vis, dirs, log, w) ==
    [stack |-> st, visited |-> visited_set_pop(vis), dirs |-> dirs - 1, log |-> log,
     warnings |-> w \cup {"directory stack full"}, ret |-> 0]

\* One iteration of the while loop of traverse_directory_internal with the
\* structure callback (pass = "structure") or the content callback: the new
\* stack, visited set, writer log and warnings, and the callback's result.
TraverseIteration(pass) ==
    LET fs == FileSystem(tree)
        current == dir_stack_peek(stack)
        dir == fs[current.inode]
    IN
    IF current.pos >= Len(dir.entries)
    THEN \* readdir returned NULL: close the handle (one fewer is open), pop
         \* the visited set and the stack
         [stack |-> dir_stack_pop(stack), visited |-> visited_set_pop(visited),
          dirs |-> IF open_dirs > 0 THEN open_dirs - 1 ELSE 0,
          log |-> writer_log, warnings |-> warnings, ret |-> 0]
    ELSE
    LET entry == dir.entries[current.pos + 1]
        advanced == [stack EXCEPT ![Len(stack)].pos = @ + 1]
        Continue(log, w) ==
            [stack |-> advanced, visited |-> visited, dirs |-> open_dirs, log |-> log,
             warnings |-> warnings \cup w, ret |-> 0]
    IN
    IF current.level >= MAX_DIRECTORY_DEPTH
    THEN Continue(writer_log, {"maximum directory depth"})
    ELSE IF entry.type = "gone"
    THEN Continue(writer_log, {"cannot lstat"})
    ELSE
    LET entry_rel_path ==
            build_relative_path(FrameRelativePath(stack, Len(stack)), entry.name)
        is_symlink == entry.type = "symlink"
        follow == is_symlink /\ run_config.symlink_handling = "SYMLINK_FOLLOW"
        \* realpath and stat of the target succeed unless the link dangles
        resolved == follow /\ entry.ino # 0
        is_directory == IF resolved THEN fs[entry.ino].kind = "dir"
                        ELSE entry.type = "dir"
        size == IF resolved THEN (IF fs[entry.ino].kind = "dir" THEN 4096
                                  ELSE fs[entry.ino].size)
                ELSE LstatSize(fs, entry)
        w1 == IF follow /\ ~resolved THEN {"cannot resolve symlink"} ELSE {}
    IN
    IF \E path \in {entry_rel_path} :
          filter_engine_should_include_path(path, FileInfo(is_directory, is_symlink)) = 0
    THEN Continue(writer_log, w1)
    ELSE
    LET cb == IF pass = "structure"
              THEN structure_callback(writer_log, entry, is_directory)
              ELSE content_callback(rules, fs, writer_log, entry, is_directory, size)
        w2 == w1 \cup cb.warnings
    IN
    IF cb.ret # 0
    THEN TraverseBreak(cb, warnings \cup w2)
    ELSE IF ~is_directory THEN Continue(cb.log, w2)
    ELSE IF ~fs[entry.ino].statable
    THEN Continue(cb.log, w2 \cup {"cannot stat subdirectory"})
    ELSE IF visited_set_contains(visited, entry.ino)
    THEN Continue(cb.log, w2 \cup {"circular symlink"})
    ELSE IF ~fs[entry.ino].openable
    THEN Continue(cb.log, w2 \cup {"cannot open directory"})
    ELSE
    LET added == visited_set_add(visited, entry.ino)
        push == dir_stack_push(advanced,
                               DirStackEntry(entry.ino, current.level + 1, entry.name))
        \* opendir has succeeded: one more handle
        opened == open_dirs + 1
    IN  IF push.ret # 0
        THEN StackFull(advanced, added, opened, cb.log, warnings \cup w2)
        ELSE [stack |-> push.stack, visited |-> added, dirs |-> opened, log |-> cb.log,
              warnings |-> warnings \cup w2, ret |-> 0]

\* The state main starts a run from: the engines created, nothing written.
ContextCreate ==
    /\ run_pc = "init"
    /\ stack = <<>>
    /\ visited = <<>>
    /\ open_dirs = 0
    /\ call_stack = <<>>
    /\ stream_buffer = NoStreamBuffer
    /\ stream_write = NoStreamWrite
    /\ writer_log = <<>>
    /\ warnings = {}
    /\ run_result = 0

\* No run: the state of the driver's variables while only an engine's API
\* is exercised.
NoRun ==
    /\ tree = "none"
    /\ run_config = NoConfig
    /\ fail_from = 0
    /\ faults = NoFaults
    /\ ContextCreate

\* main: format_engine_configure, filter_engine_configure and
\* plugin_manager_configure (no plugin on these command lines).
MainConfigure ==
    /\ run_pc = "init"
    /\ LET e == format_engine_configure(
                    [plugins |-> format_plugins, active |-> active_formatter],
                    run_config.output_format)
           st == filter_engine_configure(
                    [rules |-> rules, rule_capacity |-> rule_capacity], run_config)
       IN  /\ format_plugins' = e.plugins
           /\ active_formatter' = e.active
           /\ rules' = st.rules
           /\ rule_capacity' = st.rule_capacity
    /\ output_format' = run_config.output_format
    /\ filter_config' = run_config
    /\ run_pc' = "configured"
    /\ UNCHANGED <<filter_plugins, query, registry, plugin_event, memVars, tree, run_config, fail_from, faults, lockVars, streamVars,
                   stack, visited, open_dirs, writer_log, warnings, run_result>>

\* safe_process_with_shutdown_check returns a writer's or a pass's result.
RunReturns(log, ret) ==
    /\ run_pc' = "done"
    /\ writer_log' = log
    /\ run_result' = ret
    /\ stack' = <<>>
    /\ visited' = <<>>

\* A start that returns -1 when the root cannot be statted or opened.
TraverseStart_RootFatal(pass, log) ==
    LET root == FileSystem(tree)[RootInode] IN
    IF faults.no_stack = pass \/ ~root.statable \/ ~root.openable
    THEN RunReturns(log, -1) /\ UNCHANGED <<warnings, open_dirs>>
    ELSE /\ run_pc' = pass
         /\ writer_log' = log
         /\ run_result' = 0
         /\ visited' = visited_set_add(<<>>, RootInode)
         /\ stack' = dir_stack_push(<<>>, DirStackEntry(RootInode, 0, <<>>)).stack
         /\ open_dirs' = open_dirs + 1
         /\ UNCHANGED warnings

\* The start of traverse_directory_internal: the stack is created, the root
\* is statted, opened, added to a fresh visited set and pushed at level 0.
\* A failing dir_stack_create returns -1, which the driver returns; a root
\* that cannot be statted or opened is a warning and an empty walk.
TraverseStart(pass, log) ==
    LET root == FileSystem(tree)[RootInode] IN
    IF faults.no_stack = pass
    THEN \* dir_stack_create returns NULL
         RunReturns(log, -1) /\ UNCHANGED <<warnings, open_dirs>>
    ELSE /\ run_pc' = pass
         /\ writer_log' = log
         /\ run_result' = 0
         /\ IF ~root.statable
            THEN /\ warnings' = warnings \cup {"cannot stat directory"}
                 /\ stack' = <<>>
                 /\ visited' = <<>>
                 /\ UNCHANGED open_dirs
            ELSE IF ~root.openable
            THEN /\ warnings' = warnings \cup {"cannot open directory"}
                 /\ stack' = <<>>
                 /\ visited' = <<>>
                 /\ UNCHANGED open_dirs
            ELSE /\ visited' = visited_set_add(<<>>, RootInode)
                 /\ stack' = dir_stack_push(<<>>, DirStackEntry(RootInode, 0, <<>>)).stack
                 /\ open_dirs' = open_dirs + 1
                 /\ UNCHANGED warnings

\* safe_process_with_shutdown_check up to the first traversal.
BeginDocument ==
    /\ run_pc = "configured"
    /\ LET c == CheckedCalls(writer_log, <<"begin_document", "begin_structure">>, 1)
       IN  IF c.ret # 0 THEN RunReturns(c.log, c.ret) /\ UNCHANGED <<warnings, open_dirs>>
           ELSE TraverseStart("structure", c.log)
    /\ UNCHANGED <<filterVars, formatVars, memVars, tree, run_config, fail_from, faults, lockVars, streamVars>>

\* One iteration of the traversal loop of the pass in progress.
TraverseStep ==
    /\ run_pc \in {"structure", "content"}
    /\ stack # <<>>
    /\ \E it \in {TraverseIteration(run_pc)} :
           /\ warnings' = it.warnings
           /\ open_dirs' = it.dirs
           /\ IF it.ret # 0 THEN RunReturns(it.log, it.ret)
              ELSE /\ stack' = it.stack
                   /\ visited' = it.visited
                   /\ writer_log' = it.log
                   /\ UNCHANGED <<run_pc, run_result>>
    /\ UNCHANGED <<filterVars, formatVars, memVars, tree, run_config, fail_from, faults, lockVars, streamVars>>

\* The structure pass has returned 0: end_structure, begin_content, and the
\* second traversal starts.
EndStructure ==
    /\ run_pc = "structure"
    /\ stack = <<>>
    /\ LET c == CheckedCalls(writer_log, <<"end_structure", "begin_content">>, 1)
       IN  IF c.ret # 0 THEN RunReturns(c.log, c.ret) /\ UNCHANGED <<warnings, open_dirs>>
           ELSE TraverseStart("content", c.log)
    /\ UNCHANGED <<filterVars, formatVars, memVars, tree, run_config, fail_from, faults, lockVars, streamVars>>

\* The content pass has returned 0: end_content, end_document.
EndContent ==
    /\ run_pc = "content"
    /\ stack = <<>>
    /\ LET c == CheckedCalls(writer_log, <<"end_content", "end_document">>, 1)
       IN  RunReturns(c.log, c.ret)
    /\ UNCHANGED <<filterVars, formatVars, memVars, tree, run_config, fail_from, faults, lockVars, streamVars,
                   warnings, open_dirs>>

(***************************************************************************)
(* The buffers of the content pass                                         *)
(***************************************************************************)

\* One thing done with a buffer: it is obtained ("get"), handed to
\* format_engine_write_file_chunk ("write", with the writer's result) or
\* released ("release").
BufferCall(op, ptr, ret) == [op |-> op, ptr |-> ptr, ret |-> ret]

\* malloc: a buffer that is not live, or NULL (0) when the heap has none.
\* fallback holds the live buffers that came from malloc.
Malloc(pool) ==
    IF HeapPointers \subseteq pool.fallback THEN 0
    ELSE CHOOSE p \in HeapPointers \ pool.fallback :
             \A q \in HeapPointers \ pool.fallback : p <= q

\* memory_get_buffer(manager, size): buffer_pool_get, whose malloc may
\* return NULL.
memory_get_buffer(b, size) ==
    IF BestFit(b.pool, size, 1, 0) = 0 /\ Malloc(b.pool) = 0
    THEN [pool |-> b.pool, log |-> b.log, ret |-> 0]
    ELSE LET r == buffer_pool_get(b.pool, size, Malloc(b.pool))
         IN  [pool |-> r.pool, log |-> Append(b.log, BufferCall("get", r.ret, 0)),
              ret |-> r.ret]

\* memory_release_buffer(manager, buffer)
memory_release_buffer(b, buffer) ==
    [pool |-> buffer_pool_release(b.pool, buffer).pool,
     log |-> Append(b.log, BufferCall("release", buffer, 0))]

\* Whether the transform function of a rule, or the transform_content hook
\* of a plugin, stores a buffer of its own and returns 0.
RuleSubstitutes(rule) ==
    /\ rule.type = FILTER_TYPE_TRANSFORM
    /\ \/ rule.transform = "binary_transform" /\ rule.context.handling = "BINARY_PLACEHOLDER"
       \/ rule.transform = "symlink_transform" /\ rule.context.handling = "SYMLINK_PLACEHOLDER"
       \/ rule.transform = "user_transform" /\ rule.context.ret = 0 /\ rule.context.has_data

PluginSubstitutes(plugin) ==
    /\ plugin.transform_content.present
    /\ plugin.transform_content.hook.ret = 0
    /\ plugin.transform_content.hook.has_data

\* A substitution that keeps the old buffer.
Substitute_KeepsOld(b, current_data, transformed_data) ==
    [pool |-> b.pool, log |-> b.log, current_data |-> transformed_data]

\* result == 0 && transformed_data: the old buffer is released and the
\* stage's buffer becomes the current data.
Substitute(b, current_data, transformed_data) ==
    [pool |-> memory_release_buffer(b, current_data).pool,
     log |-> memory_release_buffer(b, current_data).log,
     current_data |-> transformed_data]

\* The two loops of filter_engine_transform_content from stage i on, as to
\* buffers: a stage that substitutes takes its buffer from malloc (when
\* malloc returns NULL it returns -1 and the current data stays).
RECURSIVE StageLoop(_, _, _)
StageLoop(stages, i, c) ==
    IF i > Len(stages) THEN c
    ELSE IF stages[i] /\ Malloc(c.pool) # 0
    THEN LET transformed_data == Malloc(c.pool)
             b == [pool |-> [c.pool EXCEPT !.fallback = @ \cup {transformed_data}],
                   log |-> Append(c.log, BufferCall("get", transformed_data, 0))]
         IN  StageLoop(stages, i + 1, Substitute(b, c.current_data, transformed_data))
    ELSE StageLoop(stages, i + 1, c)

\* filter_engine_transform_content as to buffers: the copy of the input is
\* in a buffer of its own; -1 when there is none; else the output is the
\* buffer the last substituting stage stored, or the copy.
TransformContentBuffers(rs, ps, b, input_size) ==
    LET g == memory_get_buffer(b, input_size)
        stages == [k \in 1..Len(rs) |-> RuleSubstitutes(rs[k])]
                  \o [k \in 1..Len(ps) |-> PluginSubstitutes(ps[k])]
    IN  IF g.ret = 0 THEN [pool |-> g.pool, log |-> g.log, ret |-> -1, output |-> 0]
        ELSE LET c == StageLoop(stages, 1,
                                [pool |-> g.pool, log |-> g.log, current_data |-> g.ret])
             IN  [pool |-> c.pool, log |-> c.log, ret |-> 0, output |-> c.current_data]

\* The read loop of content_callback as to buffers, from offset on: an
\* excluded chunk ends it; else the chunk goes through the transform chain,
\* the output is written and released, or the chunk itself is written when
\* the chain returned -1. The writer's result is not looked at.
RECURSIVE ChunkLoop(_, _, _, _, _, _, _)
ChunkLoop(rs, ps, file, buffer, offset, writer_ret, b) ==
    IF offset >= file.size THEN b
    ELSE LET bytes_read == Min(BufferSize(file.size), file.size - offset)
             t == TransformContentBuffers(rs, ps, b, bytes_read)
         IN  IF filter_engine_should_include_content(rs, Chunk(file, offset, bytes_read)) = 0
             THEN b
             ELSE ChunkLoop(rs, ps, file, buffer, offset + bytes_read, writer_ret,
                      IF t.ret = 0
                      THEN memory_release_buffer(
                               [pool |-> t.pool,
                                log |-> Append(t.log, BufferCall("write", t.output, writer_ret))],
                               t.output)
                      ELSE [pool |-> t.pool,
                            log |-> Append(t.log, BufferCall("write", buffer, writer_ret))])

\* content_callback on an open regular file, as to buffers: its buffer is
\* obtained (-1 when there is none), the file read through it, and the
\* buffer released.
ContentCallbackBuffers(rs, ps, pool, file, writer_ret) ==
    LET g == memory_get_buffer([pool |-> pool, log |-> <<>>], BufferSize(file.size))
    IN  IF g.ret = 0 THEN [pool |-> g.pool, log |-> g.log, ret |-> -1]
        ELSE LET r == ChunkLoop(rs, ps, file, g.ret, 0, writer_ret,
                                [pool |-> g.pool, log |-> g.log])
                 e == memory_release_buffer(r, g.ret)
             IN  [pool |-> e.pool, log |-> e.log, ret |-> 0]

\* The files process_directory_content comes to: one chunk, two chunks, two
\* chunks with a NUL byte in the second, a file read through the larger
\* buffer.
ContentFiles == {File(100, {}), File(5000, {}), File(5000, {4500}), File(20000, {})}

\* Transforms of the user's that substitute, or decline without a buffer.
BufferRules == {rule \in TransformRules : rule.context.tag \in {"a", "d"}}
BufferPlugins ==
    {plugin \in TransformPlugins :
        plugin.transform_content.present => plugin.transform_content.hook.tag = "p"}
MaxBufferRules == 1
MaxBufferPlugins == 1

\* content_callback(ctx, path, ENTRY_TYPE_FILE, info, level, user_data) in
\* process_directory_content, on a file it has opened.
ProcessFileContent(file, writer_ret) ==
    /\ filter_config # NoConfig
    /\ LET r == ContentCallbackBuffers(rules, filter_plugins, buffer_pool, file, writer_ret)
       IN  /\ buffer_pool' = r.pool
           /\ query' = [asked |-> TRUE, op |-> "content_callback", input |-> file,
                        output |-> [ret |-> r.ret, log |-> r.log]]
    /\ pool_event' = [op |-> "content", size |-> file.size, ptr |-> 0, freed |-> 0]
    /\ UNCHANGED <<rules, rule_capacity, filter_plugins, filter_config>>
    /\ UNCHANGED <<heap, mem_handles, mem_stats, track_allocations, mem_event>>
    /\ UNCHANGED <<formatVars, walkVars, lockVars, streamVars>>

(***************************************************************************)
(* The calls in steps: what runs under which mutex                         *)
(***************************************************************************)

\* A call in progress: the function, the registry entry, rule or plugin it
\* has come to, where it stands (at its pthread_mutex_lock, in its body, at
\* the pthread_mutex_lock after a hook, past that lock) and, for a hook, the
\* number of calls it has made back into the program.
Frame(fn, index, at, made) == [fn |-> fn, index |-> index, at |-> at, made |-> made]

Top == call_stack[Len(call_stack)]

\* The hooks, and the locking function each kind of hook calls back into:
\* init and cleanup read the plugin's parameters, a transform hook asks the
\* Filter Engine about a path.
Hooks == {"init", "cleanup", "transform", "transform_content"}

ReentersThrough(hook) ==
    IF hook \in {"init", "cleanup"} THEN "plugin_manager_get_parameter"
    ELSE "filter_engine_should_include_path"

\* The mutex a function locks.
UsesRegistryMutex(fn) ==
    fn \in {"plugin_manager_initialize_plugins", "plugin_manager_get_parameter",
            "plugin_manager_destroy"}

MaxHookCalls == 1
MaxLockLoads == 2
MaxLockRules == 1
MaxLockPlugins == 1

\* The plugins loaded in these runs: with an init that succeeds, without
\* one, with one that fails.
LockLibraries ==
    {lib \in PluginLibraries : lib.path \in {"json.so", "xml.so", "text.so"}}

\* The rules and filter plugins of these runs: with a transform function or
\* hook of the user's, and without one.
LockRules == {rule \in TransformRules : rule.context.tag \in {"a", "f"}}
LockPlugins ==
    {plugin \in TransformPlugins :
        ~plugin.transform_content.present \/ plugin.transform_content.hook.tag = "p"}

\* pthread_mutex_lock returns once the mutex is unlocked.  The mutexes are
\* initialized with default attributes: a thread that locks one it holds
\* never gets past the call.
PthreadMutexLock ==
    /\ call_stack # <<>>
    /\ Top.at \in {"lock", "relock"}
    /\ IF UsesRegistryMutex(Top.fn)
       THEN /\ registry_mutex = "unlocked"
            /\ registry_mutex' = "locked"
            /\ UNCHANGED engine_mutex
       ELSE /\ engine_mutex = "unlocked"
            /\ engine_mutex' = "locked"
            /\ UNCHANGED registry_mutex
    /\ call_stack' = [call_stack EXCEPT ![Len(call_stack)].at =
                         IF Top.at = "lock" THEN "body" ELSE "after_hook"]
    /\ UNCHANGED <<filterVars, formatVars, memVars, walkVars, streamVars>>

\* plugin_manager_initialize_plugins(manager, ctx) is called.
InitializePluginsCall ==
    /\ call_stack = <<>>
    /\ plugin_event.op # "destroy"
    /\ call_stack' = <<Frame("plugin_manager_initialize_plugins", 1, "lock", 0)>>
    /\ plugin_event' = [op |-> "initialize", lib |-> "", ret |-> 0, calls |-> <<>>]
    /\ UNCHANGED <<registry, format_plugins, active_formatter, output_format,
                   filterVars, memVars, walkVars, streamVars, registry_mutex, engine_mutex>>

\* An init call made with the registry mutex still held.
CallInit_Locked(i) ==
    /\ call_stack' = Append(call_stack, Frame("init", i, "body", 0))
    /\ UNCHANGED <<registry, plugin_event, registry_mutex>>

\* pthread_mutex_unlock, then plugin->init(ctx).
CallInit(i) ==
    /\ registry_mutex' = "unlocked"
    /\ call_stack' = Append(call_stack, Frame("init", i, "body", 0))
    /\ UNCHANGED <<registry, plugin_event>>

\* One step of the loop of plugin_manager_initialize_plugins: past the last
\* entry the mutex is unlocked and 0 returned; an initialized entry is
\* skipped and one without init flagged; init is called; after init has
\* returned and the mutex is locked again, the entry is flagged by its
\* result.
InitializePluginsStep ==
    /\ call_stack # <<>>
    /\ Top.fn = "plugin_manager_initialize_plugins"
    /\ Top.at \in {"body", "after_hook"}
    /\ LET i == Top.index
           next == [call_stack EXCEPT ![Len(call_stack)] = Frame(Top.fn, i + 1, "body", 0)]
       IN  IF i > Len(registry)
           THEN /\ registry_mutex' = "unlocked"
                /\ call_stack' = SubSeq(call_stack, 1, Len(call_stack) - 1)
                /\ UNCHANGED <<registry, plugin_event>>
           ELSE IF Top.at = "after_hook"
           THEN /\ registry' = [registry EXCEPT ![i] = InitializeEntry(registry[i], i).meta]
                /\ plugin_event' = [plugin_event EXCEPT
                                       !.calls = @ \o InitializeEntry(registry[i], i).calls]
                /\ call_stack' = next
                /\ UNCHANGED registry_mutex
           ELSE IF registry[i].initialized \/ registry[i].init = "absent"
           THEN /\ registry' = [registry EXCEPT ![i] = InitializeEntry(registry[i], i).meta]
                /\ call_stack' = next
                /\ UNCHANGED <<plugin_event, registry_mutex>>
           ELSE CallInit(i)
    /\ UNCHANGED <<format_plugins, active_formatter, output_format, filterVars, memVars,
                   walkVars, streamVars, engine_mutex>>

\* plugin_manager_destroy(manager, ctx) is called.
PluginManagerDestroyCall ==
    /\ call_stack = <<>>
    /\ plugin_event.op # "destroy"
    /\ call_stack' = <<Frame("plugin_manager_destroy", 1, "lock", 0)>>
    /\ plugin_event' = [op |-> "destroy", lib |-> "", ret |-> 0, calls |-> <<>>]
    /\ UNCHANGED <<registry, format_plugins, active_formatter, output_format,
                   filterVars, memVars, walkVars, streamVars, registry_mutex, engine_mutex>>

\* One step of the loop of plugin_manager_destroy: past the last entry the
\* mutex is unlocked and the manager freed; the cleanup hook of an entry
\* that has one is called, the mutex as it is; after it has returned, or
\* when there is none, the entry's handle is closed.
PluginManagerDestroyStep ==
    /\ call_stack # <<>>
    /\ Top.fn = "plugin_manager_destroy"
    /\ Top.at \in {"body", "after_hook"}
    /\ LET i == Top.index
       IN  IF i > Len(registry)
           THEN /\ registry_mutex' = "unlocked"
                /\ registry' = <<>>
                /\ call_stack' = SubSeq(call_stack, 1, Len(call_stack) - 1)
                /\ UNCHANGED plugin_event
           ELSE IF Top.at = "body" /\ registry[i].cleanup
           THEN /\ call_stack' = Append(call_stack, Frame("cleanup", i, "body", 0))
                /\ UNCHANGED <<registry, plugin_event, registry_mutex>>
           ELSE /\ plugin_event' = [plugin_event EXCEPT
                                       !.calls = @ \o DestroyEntry(registry[i], i).calls]
                /\ call_stack' = [call_stack EXCEPT
                                     ![Len(call_stack)] = Frame(Top.fn, i + 1, "body", 0)]
                /\ UNCHANGED <<registry, registry_mutex>>
    /\ UNCHANGED <<format_plugins, active_formatter, output_format, filterVars, memVars,
                   walkVars, streamVars, engine_mutex>>

\* filter_engine_transform_content(engine, ctx, path, input, ...) is called.
TransformContentCall ==
    /\ call_stack = <<>>
    /\ filter_config # NoConfig
    /\ call_stack' = <<Frame("filter_engine_transform_content", 1, "lock", 0)>>
    /\ UNCHANGED <<filterVars, formatVars, memVars, walkVars, streamVars, registry_mutex, engine_mutex>>

\* The rule or plugin the loops of filter_engine_transform_content have come
\* to has a transform function of the user's, or a transform_content hook.
TransformHookAt(i) ==
    IF i <= Len(rules)
    THEN IF rules[i].type = FILTER_TYPE_TRANSFORM /\ rules[i].transform = "user_transform"
         THEN "transform" ELSE "none"
    ELSE IF filter_plugins[i - Len(rules)].transform_content.present
         THEN "transform_content" ELSE "none"

\* One step of the loops of filter_engine_transform_content: a rule or
\* plugin without a hook of the user's is passed, a hook is called, a hook
\* that has returned is passed; past the last plugin the output is set, the
\* mutex unlocked and 0 returned.
TransformContentStep ==
    /\ call_stack # <<>>
    /\ Top.fn = "filter_engine_transform_content"
    /\ Top.at \in {"body", "after_hook"}
    /\ LET i == Top.index
           next == [call_stack EXCEPT ![Len(call_stack)] = Frame(Top.fn, i + 1, "body", 0)]
       IN  IF i > Len(rules) + Len(filter_plugins)
           THEN /\ engine_mutex' = "unlocked"
                /\ call_stack' = SubSeq(call_stack, 1, Len(call_stack) - 1)
                /\ \E input \in TransformInputs :
                      query' = [asked |-> TRUE, op |-> "transform_content", input |-> input,
                                output |-> filter_engine_transform_content(
                                               rules, filter_plugins, input)]
           ELSE IF Top.at = "body" /\ TransformHookAt(i) # "none"
           THEN /\ call_stack' = Append(call_stack, Frame(TransformHookAt(i), i, "body", 0))
                /\ UNCHANGED <<engine_mutex, query>>
           ELSE /\ call_stack' = next
                /\ UNCHANGED <<engine_mutex, query>>
    /\ UNCHANGED <<rules, rule_capacity, filter_plugins, filter_config, formatVars, memVars,
                   walkVars, streamVars, registry_mutex>>

\* A hook calls back into the program: plugin_manager_get_parameter from
\* init, filter_engine_should_include_path from a transform hook.
HookReenters ==
    /\ call_stack # <<>>
    /\ Top.fn \in Hooks
    /\ Top.made < MaxHookCalls
    /\ call_stack' = Append([call_stack EXCEPT ![Len(call_stack)].made = @ + 1],
                            Frame(ReentersThrough(Top.fn), 0, "lock", 0))
    /\ UNCHANGED <<filterVars, formatVars, memVars, walkVars, streamVars, registry_mutex, engine_mutex>>

\* plugin_manager_get_parameter or filter_engine_should_include_path, called
\* by a hook, has done its reading: it unlocks its mutex and returns.
ReenteredCallReturns ==
    /\ call_stack # <<>>
    /\ Top.fn \in {"plugin_manager_get_parameter", "filter_engine_should_include_path"}
    /\ Top.at = "body"
    /\ IF UsesRegistryMutex(Top.fn)
       THEN registry_mutex' = "unlocked" /\ UNCHANGED engine_mutex
       ELSE engine_mutex' = "unlocked" /\ UNCHANGED registry_mutex
    /\ call_stack' = SubSeq(call_stack, 1, Len(call_stack) - 1)
    /\ UNCHANGED <<filterVars, formatVars, memVars, walkVars, streamVars>>

\* A hook returns to its caller: plugin_manager_initialize_plugins goes to
\* lock the registry mutex again, filter_engine_transform_content goes on.
HookReturns ==
    /\ Len(call_stack) >= 2
    /\ Top.fn \in Hooks
    /\ LET caller == Len(call_stack) - 1
           popped == SubSeq(call_stack, 1, caller)
       IN  call_stack' = [popped EXCEPT ![caller].at =
                             IF Top.fn = "init" THEN "relock" ELSE "after_hook"]
    /\ UNCHANGED <<filterVars, formatVars, memVars, walkVars, streamVars, registry_mutex, engine_mutex>>

(***************************************************************************)
(* Specifications                                                          *)
(***************************************************************************)

\* The Filter Engine driven through its API.
InitFilter ==
    FilterEngineCreate /\ FormatEngineCreate /\ PluginManagerCreate /\ MemoryManagerCreate /\ NoRun

NextFilter ==
    \/ \E config \in FilterConfigs : FilterEngineConfigure(config)
    \/ \E rule \in UserRules :
           UserRuleCount < MaxUserRules /\ FilterEngineAddRule(rule)
    \/ \E plugin \in FilterPlugins :
           Len(filter_plugins) < MaxFilterPlugins /\ FilterEngineRegisterPlugin(plugin)
    \/ \E q \in Queries : FilterEngineQuery(q[1], q[2])

SpecFilter == InitFilter /\ [][NextFilter]_vars

\* The Filter Engine configured, given transform rules and plugins with
\* transform hooks, and asked to transform chunks.
NextTransform ==
    \/ \E config \in TransformConfigs : FilterEngineConfigure(config)
    \/ \E rule \in TransformRules :
           /\ Cardinality({i \in 1..Len(rules) : rules[i] \in TransformRules})
                 < MaxTransformRules
           /\ FilterEngineAddRule(rule)
    \/ \E plugin \in TransformPlugins :
           Len(filter_plugins) < MaxTransformPlugins /\ FilterEngineRegisterPlugin(plugin)
    \/ \E input \in TransformInputs : FilterEngineTransformContent(input)

SpecTransform == InitFilter /\ [][NextTransform]_vars

\* The plugin manager and the Filter Engine with hooks that call back into
\* them, on one thread.
NextLock ==
    \/ \E format_name \in {"text"} : call_stack = <<>> /\ FormatEngineConfigure(format_name)
    \/ \E lib \in LockLibraries :
           /\ call_stack = <<>>
           /\ Len(registry) < MaxLockLoads
           /\ PluginManagerLoadPlugin(lib)
    \/ \E config \in {PlainConfig} : call_stack = <<>> /\ FilterEngineConfigure(config)
    \/ \E rule \in LockRules :
           /\ call_stack = <<>>
           /\ Cardinality({i \in 1..Len(rules) : rules[i] \in LockRules}) < MaxLockRules
           /\ FilterEngineAddRule(rule)
    \/ \E plugin \in LockPlugins :
           /\ call_stack = <<>>
           /\ Len(filter_plugins) < MaxLockPlugins
           /\ FilterEngineRegisterPlugin(plugin)
    \/ InitializePluginsCall
    \/ InitializePluginsStep
    \/ PluginManagerDestroyCall
    \/ PluginManagerDestroyStep
    \/ TransformContentCall
    \/ TransformContentStep
    \/ PthreadMutexLock
    \/ HookReenters
    \/ ReenteredCallReturns
    \/ HookReturns

SpecLock == InitFilter /\ [][NextLock]_vars

\* The Filter Engine with rules and plugins whose matchers may fail.
NextFault ==
    \/ \E config \in TransformConfigs : FilterEngineConfigure(config)
    \/ \E rule \in FailingRules :
           UserRuleCount < MaxUserRules /\ FilterEngineAddRule(rule)
    \/ \E plugin \in FailingPlugins :
           Len(filter_plugins) < MaxFilterPlugins /\ FilterEngineRegisterPlugin(plugin)
    \/ \E pth \in {S_main_c, S_readme_md} : FilterEngineQuery(pth, FileInfo(FALSE, FALSE))

SpecFault == InitFilter /\ [][NextFault]_vars

\* The content pass file by file, on an engine that main has configured and
\* that holds transforms of the user's, while plugins hold buffers of their
\* own (obtained before the pass).
NextBuffers ==
    \/ \E config \in TransformConfigs : FilterEngineConfigure(config)
    \/ \E rule \in BufferRules :
           /\ Cardinality({i \in 1..Len(rules) : rules[i] \in BufferRules}) < MaxBufferRules
           /\ ~query.asked
           /\ FilterEngineAddRule(rule)
    \/ \E plugin \in BufferPlugins :
           /\ Len(filter_plugins) < MaxBufferPlugins
           /\ ~query.asked
           /\ FilterEngineRegisterPlugin(plugin)
    \/ \E size \in {SMALL_BUFFER_SIZE, MEDIUM_BUFFER_SIZE}, fresh \in HeapPointers :
           /\ filter_config = NoConfig
           /\ BufferPoolGet(size, fresh)
           /\ UNCHANGED <<filterVars, formatVars, walkVars, lockVars, streamVars>>
    \/ \E file \in ContentFiles, writer_ret \in {0, -1} : ProcessFileContent(file, writer_ret)

SpecBuffers == InitFilter /\ [][NextBuffers]_vars

\* The Format Engine configured and plugins loaded, in main's order.
InitFormat ==
    FilterEngineCreate /\ FormatEngineCreate /\ PluginManagerCreate /\ MemoryManagerCreate /\ NoRun

NextFormat ==
    \/ \E format_name \in FormatNames : FormatEngineConfigure(format_name)
    \/ \E lib \in PluginLibraries :
           Len(registry) < MaxLoads /\ PluginManagerLoadPlugin(lib)

SpecFormat == InitFormat /\ [][NextFormat]_vars

\* The plugin manager through its life: main configures the engines, the
\* plugins of the command line are loaded (a few one at a time, or a list
\* long enough to fill the registry at once), initialized, and torn down.
NextPlugin ==
    \/ \E format_name \in {"text"} : FormatEngineConfigure(format_name)
    \/ \E lib \in ProbeLibraries :
           /\ Len(registry) < MaxPlugins \/ Len(registry) >= MAX_PLUGINS
           /\ PluginManagerLoadPlugin(lib)
    \/ PluginManagerConfigure(FullPluginList)
    \/ PluginManagerInitializePlugins
    \/ PluginManagerDestroy

SpecPlugin == InitFormat /\ [][NextPlugin]_vars

\* The teardown of main: after the plugins of the command line are loaded
\* and initialized, plugin_manager_destroy, format_engine_destroy and
\* filter_engine_destroy run in this order.
MaxTeardownLoads == 2
TeardownLibraries ==
    {lib \in ProbeLibraries : lib.path \in {"json.so", "xml.so", "filt.so", "fc.so", "cont.so"}}

NextTeardown ==
    \/ \E format_name \in {"text", "json"} : FormatEngineConfigure(format_name)
    \/ \E lib \in TeardownLibraries :
           /\ plugin_event.op \in {"none", "load", "initialize"}
           /\ Len(registry) < MaxTeardownLoads
           /\ PluginManagerLoadPlugin(lib)
    \/ plugin_event.op \in {"none", "load"} /\ PluginManagerInitializePlugins
    \/ plugin_event.op \in {"none", "load", "initialize"} /\ PluginManagerDestroy
    \/ FormatEngineDestroy
    \/ FilterEngineDestroy

SpecTeardown == InitFormat /\ [][NextTeardown]_vars

\* The tracked allocator called by a program that may free a pointer twice.
InitMem ==
    FilterEngineCreate /\ FormatEngineCreate /\ PluginManagerCreate /\ MemoryManagerCreate /\ NoRun

NextMem ==
    \/ \E size \in AllocSizes, addr \in Addresses :
           MemoryAlloc(size, addr) /\ UNCHANGED <<filterVars, formatVars, walkVars, lockVars, streamVars>>
    \/ \E h \in 1..MaxAllocs, seen \in {g_memory_magic, g_memory_freed_magic, "GARBAGE"} :
           MemoryFree(h, seen) /\ UNCHANGED <<filterVars, formatVars, walkVars, lockVars, streamVars>>

SpecMem == InitMem /\ [][NextMem]_vars

\* The tracked allocator called by a program that frees each pointer once,
\* resizes its allocations, and may write outside the bytes it asked for.
NextRealloc ==
    \/ \E size \in AllocSizes, addr \in Addresses :
           mem_stats.allocation_count < MaxResizes /\ MemoryAlloc(size, addr) /\ UNCHANGED <<filterVars, formatVars, walkVars, lockVars, streamVars>>
    \/ \E h \in 1..MaxAllocs, seen \in {g_memory_magic, g_memory_freed_magic, "GARBAGE"} :
           /\ h \in 1..Len(mem_handles)
           /\ ~mem_handles[h].freed
           /\ MemoryFree(h, seen)
           /\ UNCHANGED <<filterVars, formatVars, walkVars, lockVars, streamVars>>
    \/ \E h \in 0..MaxAllocs, size \in ReallocSizes, new_addr \in {0} \cup Addresses,
          seen \in {g_memory_magic, g_memory_freed_magic, "GARBAGE"} :
           MemoryRealloc(h, size, seen, new_addr)
           /\ UNCHANGED <<filterVars, formatVars, walkVars, lockVars, streamVars>>
    \/ \E h \in 1..MaxAllocs, part \in {"header", "tail"} :
           CorruptBlock(h, part) /\ UNCHANGED <<filterVars, formatVars, walkVars, lockVars, streamVars>>

SpecRealloc == InitMem /\ [][NextRealloc]_vars

\* The tracked allocator called by a program that switches the tracking on
\* and off between its calls, frees each pointer once and resizes in place;
\* malloc hands out the lowest free block.
MaxTrackingAllocs == 2
NextTracking ==
    \/ \E enable \in BOOLEAN :
           MemoryEnableTracking(enable) /\ UNCHANGED <<filterVars, formatVars, walkVars, lockVars, streamVars>>
    \/ \E size \in {8}, addr \in Addresses :
           /\ Len(mem_handles) < MaxTrackingAllocs
           /\ \A a \in Addresses : a < addr => heap[a].allocated
           /\ MemoryAlloc(size, addr)
           /\ UNCHANGED <<filterVars, formatVars, walkVars, lockVars, streamVars>>
    \/ \E h \in 1..MaxAllocs :
           /\ h \in 1..Len(mem_handles)
           /\ ~mem_handles[h].freed
           /\ MemoryFree(h, g_memory_magic)
           /\ UNCHANGED <<filterVars, formatVars, walkVars, lockVars, streamVars>>
    \/ \E h \in 1..MaxAllocs, size \in ReallocSizes :
           /\ h \in 1..Len(mem_handles)
           /\ MemoryRealloc(h, size, g_memory_magic, mem_handles[h].addr)
           /\ UNCHANGED <<filterVars, formatVars, walkVars, lockVars, streamVars>>

SpecTracking == InitMem /\ [][NextTracking]_vars

\* A stream buffer created and written to.
NextStream ==
    \/ \E initial_size \in StreamCapacities :
           /\ StreamBufferCreate(initial_size)
           /\ UNCHANGED <<filterVars, formatVars, memVars, walkVars, lockVars>>
    \/ \E size \in StreamWriteSizes :
           /\ StreamBufferWriteCall(size)
           /\ UNCHANGED <<filterVars, formatVars, memVars, walkVars, lockVars>>
    \/ /\ StreamBufferWriteLoop
       /\ UNCHANGED <<filterVars, formatVars, memVars, walkVars, lockVars>>

\* The thread that has called stream_buffer_write keeps running.
SpecStream == InitMem /\ [][NextStream]_vars /\ WF_vars(NextStream)

\* The buffer pool used by a program that gets buffers and releases each
\* buffer it got once.
NextPool ==
    \/ \E size \in PoolRequests, fresh \in HeapPointers :
           BufferPoolGet(size, fresh) /\ UNCHANGED <<filterVars, formatVars, walkVars, lockVars, streamVars>>
    \/ \E buffer \in PoolPointers \cup HeapPointers :
           BufferPoolRelease(buffer) /\ UNCHANGED <<filterVars, formatVars, walkVars, lockVars, streamVars>>

SpecPool == InitMem /\ [][NextPool]_vars

\* One run of the driver over a directory tree.
Init ==
    /\ FilterEngineCreate /\ FormatEngineCreate /\ PluginManagerCreate /\ MemoryManagerCreate
    /\ \E input \in RunInputs :
          /\ tree = input[1]
          /\ run_config = input[2]
          /\ fail_from = input[3]
    /\ faults = NoFaults
    /\ ContextCreate

Next ==
    \/ MainConfigure
    \/ BeginDocument
    \/ TraverseStep
    \/ EndStructure
    \/ EndContent

Spec == Init /\ [][Next]_vars

\* The run with its steps taken as long as one is possible: the driver is a
\* single thread that runs to completion.
SpecLive == Spec /\ WF_vars(Next)

\* One run of the driver in an environment with faults.
InitWalk ==
    /\ FilterEngineCreate /\ FormatEngineCreate /\ PluginManagerCreate /\ MemoryManagerCreate
    /\ \E input \in FaultInputs :
          /\ tree = input[1]
          /\ run_config = input[2]
          /\ fail_from = input[3]
          /\ faults = input[4]
    /\ ContextCreate

SpecWalk == InitWalk /\ [][Next]_vars

(***************************************************************************)
(* Properties of the Filter Engine                                         *)
(***************************************************************************)

\* The rules of a type that have a path matcher, and what the matcher says
\* about the path of the recorded call.
PathRules(type) ==
    {i \in 1..Len(rules) : rules[i].type = type /\ rules[i].match_path # NULL}

QueryMatches(i) == CallMatchPath(rules[i], query.path, query.info) # 0

NoExcludeMatches == \A i \in PathRules(FILTER_TYPE_EXCLUDE) : ~QueryMatches(i)

NoPluginVetoes ==
    \A j \in 1..Len(filter_plugins) :
        filter_plugins[j].should_include_path.present
            => filter_plugins[j].should_include_path.ret # 0

\* C4 as the specification states it: should_include_path returns 1 exactly
\* when no Exclude rule matches, no plugin vetoes, and either no Include rule
\* is registered or at least one Include rule matches.
C4_AnyIncludeSuffices ==
    query.asked =>
        (query.result = 1 <=>
            /\ NoExcludeMatches
            /\ NoPluginVetoes
            /\ \/ PathRules(FILTER_TYPE_INCLUDE) = {}
               \/ \E i \in PathRules(FILTER_TYPE_INCLUDE) : QueryMatches(i))

\* C4 amended: should_include_path returns 1 exactly when no Exclude rule's
\* path matcher matches, every Include rule's path matcher matches, and no
\* plugin's should_include_path hook returns 0.
C4_EveryIncludeMustMatch ==
    query.asked =>
        (query.result = 1 <=>
            /\ NoExcludeMatches
            /\ NoPluginVetoes
            /\ \A i \in PathRules(FILTER_TYPE_INCLUDE) : QueryMatches(i))

\* C4's case: a path that one Include rule matches and another does not,
\* with no Exclude match and no plugin veto, has been rejected.
C4_Witness ==
    /\ query.asked
    /\ query.result = 0
    /\ NoExcludeMatches
    /\ NoPluginVetoes
    /\ \E i, j \in PathRules(FILTER_TYPE_INCLUDE) : QueryMatches(i) /\ ~QueryMatches(j)

\* The engine holds exactly what filter_engine_configure installed.
OnlyConfigured ==
    /\ filter_config # NoConfig
    /\ UserRuleCount = 0
    /\ filter_plugins = <<>>

IsRegularFileQuery ==
    /\ query.asked
    /\ ~query.info.is_null
    /\ ~query.info.is_directory
    /\ ~query.info.is_symlink

\* C5 as the specification states it: after filter_engine_configure with
\* include pattern *.c and exclude pattern test_*.c, test_main.c is excluded,
\* main.c is included and readme.md, which matches no include pattern, is
\* excluded.
C5_IncludeListExcludesOthers ==
    (/\ OnlyConfigured
     /\ filter_config.include_patterns = <<P_star_c>>
     /\ filter_config.exclude_patterns = <<P_test_star_c>>
     /\ IsRegularFileQuery)
    => /\ query.path = S_test_main_c => query.result = 0
       /\ query.path = S_main_c => query.result = 1
       /\ query.path = S_readme_md => query.result = 0

\* The output file's path relative to the input directory.
OutputRelativePath ==
    get_relative_path_util(get_absolute_path_util(filter_config.input_directory),
                           get_absolute_path_util(filter_config.output_file)).path

\* C3 as the specification states it: when the output file lies inside the
\* input directory, should_include_path returns 0 for its relative path.
C3_OutputFileExcluded ==
    (/\ OnlyConfigured
     /\ OutputInsideInput(filter_config)
     /\ IsRegularFileQuery
     /\ query.path = OutputRelativePath)
    => query.result = 0

(***************************************************************************)
(* Properties of the Format Engine                                         *)
(***************************************************************************)

FormatConfigured == output_format # ""

\* The first registered formatter with the name, if there is one.
FirstRegisteredNamed(name) ==
    LET hits == {i \in 1..Len(format_plugins) : format_plugins[i].name = name}
    IN  IF hits = {} THEN NoFormatter
        ELSE format_plugins[CHOOSE i \in hits : \A j \in hits : i <= j]

\* The formatter the configured name selects: the first registered formatter
\* with that name, else the first registered formatter.
SelectedByConfiguredName ==
    IF FirstRegisteredNamed(output_format) # NoFormatter
    THEN FirstRegisteredNamed(output_format)
    ELSE format_plugins[1]

\* The names of the format plugins loaded so far, in load order.
LoadedFormatNames ==
    LET idx == {i \in 1..Len(registry) : registry[i].type = PLUGIN_TYPE_FORMAT}
    IN  [k \in 1..Cardinality(idx) |->
            registry[CHOOSE i \in idx : Cardinality({j \in idx : j <= i}) = k].name]

ExactlyOneActive ==
    /\ active_formatter # NoFormatter
    /\ \E i \in 1..Len(format_plugins) : format_plugins[i] = active_formatter

C9_JsonIsBuiltIn ==
    (output_format = "json" /\ registry = <<>>) =>
        /\ \E i \in 1..Len(format_plugins) : format_plugins[i] = format_json_plugin
        /\ active_formatter = format_json_plugin

(***************************************************************************)
(* Properties of the tracked allocator                                     *)
(***************************************************************************)

\* C10 as the specification states it: a memory_free call on a pointer that
\* was already freed is reported as a double free, releases nothing, and
\* leaves the statistics and every block's header and canary unchanged.
C10_SecondFreeDetected ==
    [][\A h \in 1..Len(mem_handles) :
          (/\ mem_handles[h].freed
           /\ \E seen \in {g_memory_magic, g_memory_freed_magic, "GARBAGE"} :
                 MemoryFree(h, seen))
          => /\ mem_event'.report = "double-free"
             /\ mem_stats' = mem_stats
             /\ heap' = heap]_vars

MagicWords == {g_memory_magic, g_memory_freed_magic, "GARBAGE"}

\* C11: memory_free on a block whose header magic is neither the live nor
\* the freed magic refuses the call (no block changes, the statistics stay);
\* on a live block with a valid header and a corrupted tail canary it warns
\* and completes the free: the block is released and marked freed, and the
\* statistics count the free.
C11_FreeRefusesOrWarns ==
    [][\A h \in {mem_event'.handle}, seen \in MagicWords :
          (mem_event'.op = "free" /\ MemoryFree(h, seen)) =>
            LET addr == mem_handles[h].addr IN
            /\ seen \notin {g_memory_magic, g_memory_freed_magic} =>
                  /\ mem_event'.report = "header corruption"
                  /\ heap' = heap
                  /\ mem_stats' = mem_stats
            /\ (/\ heap[addr].allocated
                /\ seen = g_memory_magic
                /\ heap[addr].canary # g_memory_canary) =>
                  /\ mem_event'.report = "buffer overflow"
                  /\ ~heap'[addr].allocated
                  /\ heap'[addr].magic = g_memory_freed_magic
                  /\ mem_stats'.free_count = mem_stats.free_count + 1
                  /\ mem_stats'.total_freed = mem_stats.total_freed + heap[addr].size
                  /\ mem_stats'.current_usage = mem_stats.current_usage - heap[addr].size]_vars

\* A block with a corrupted tail canary has just been freed with a warning.
C11_Witness ==
    /\ mem_event.op = "free"
    /\ mem_event.report = "buffer overflow"
    /\ ~heap[mem_handles[mem_event.handle].addr].allocated
    /\ heap[mem_handles[mem_event.handle].addr].canary = "GARBAGE"
    /\ mem_stats.free_count = 1

\* C15: memory_realloc with a non-null pointer and a non-zero size returns
\* NULL and leaves every block and the statistics unchanged when the header
\* magic or the tail canary is not valid; when both are valid and a block is
\* returned, that block records the new size and carries a valid tail canary.
C15_ReallocValidates ==
    [][\A h \in {mem_event'.handle} \ {0}, size \in ReallocSizes \ {0},
          seen \in MagicWords, new_addr \in {0} \cup Addresses :
          (mem_event'.op = "realloc" /\ MemoryRealloc(h, size, seen, new_addr)) =>
            LET addr == mem_handles[h].addr
                valid == seen = g_memory_magic /\ heap[addr].canary = g_memory_canary
            IN  /\ ~valid => /\ mem_event'.ret = 0
                             /\ heap' = heap
                             /\ mem_stats' = mem_stats
                /\ (valid /\ mem_event'.ret # 0) =>
                      /\ heap'[mem_event'.ret].allocated
                      /\ heap'[mem_event'.ret].magic = g_memory_magic
                      /\ heap'[mem_event'.ret].size = size
                      /\ heap'[mem_event'.ret].canary = g_memory_canary]_vars

\* A realloc has grown a valid allocation from 8 to 16 bytes and moved it.
C15_Witness ==
    /\ mem_event.op = "realloc"
    /\ mem_event.report = "resized"
    /\ heap[mem_event.ret].size = 16
    /\ mem_stats.total_allocated = 24
    /\ \E a \in Addresses : a # mem_event.ret /\ heap[a].size = 8 /\ ~heap[a].allocated

\* C16: memory_realloc(ptr, 0) changes the blocks and the statistics exactly
\* as memory_free(ptr) does and returns NULL; memory_realloc(NULL, n) changes
\* them exactly as memory_alloc(n) does and returns what it returns.
C16_ReallocDegenerateCases ==
    [][\A h \in {mem_event'.handle}, size \in ReallocSizes, seen \in MagicWords,
          new_addr \in {0} \cup Addresses :
          (mem_event'.op = "realloc" /\ MemoryRealloc(h, size, seen, new_addr)) =>
            /\ (h # 0 /\ size = 0) =>
                  LET r == memory_free(MemoryState, mem_handles[h].addr, seen) IN
                  /\ heap' = r.heap
                  /\ mem_stats' = r.stats
                  /\ mem_event'.report = r.report
                  /\ mem_event'.ret = 0
            /\ h = 0 =>
                  LET r == memory_alloc(MemoryState, size, new_addr) IN
                  /\ heap' = r.heap
                  /\ mem_stats' = r.stats
                  /\ mem_event'.ret = r.ret]_vars

\* A realloc to size 0 has just released a live block.
C16_Witness ==
    /\ mem_event.op = "realloc"
    /\ mem_event.report = "released"
    /\ mem_event.ret = 0
    /\ mem_stats.free_count = 1
    /\ ~heap[mem_handles[mem_event.handle].addr].allocated

(***************************************************************************)
(* Properties of the buffer pool                                           *)
(***************************************************************************)

\* The free pool buffers that can hold size bytes.
FreeFits(pool, size) ==
    {i \in PoolPointers : ~pool.in_use[i] /\ pool.buffer_sizes[i] >= size}

\* C12: when buffer_pool_get(n) has just returned a pool buffer p, releasing
\* p and calling buffer_pool_get(n) again, with no other pool call in
\* between, returns p.
C12_ReleaseThenGetSamePointer ==
    (pool_event.op = "get" /\ pool_event.ptr \in PoolPointers) =>
        \A fresh \in HeapPointers :
            buffer_pool_get(buffer_pool_release(buffer_pool, pool_event.ptr).pool,
                            pool_event.size, fresh).ret = pool_event.ptr

\* A request the small tier could hold has been served from the medium
\* tier, the small tier being in use, while a medium buffer before the one
\* returned is free again.
C12_Witness ==
    /\ pool_event.op = "get"
    /\ pool_event.size <= SMALL_BUFFER_SIZE
    /\ pool_event.ptr \in PoolPointers
    /\ buffer_pool.buffer_sizes[pool_event.ptr] = MEDIUM_BUFFER_SIZE
    /\ buffer_pool.in_use[pool_event.ptr]

\* C13: buffer_pool_get(size) returns a pool buffer that was free at the
\* call and whose size is the smallest size >= size among the free pool
\* buffers, and marks exactly that buffer in use; only with no such buffer
\* does it return a heap buffer, and then no in-use flag changes.
C13_GetIsBestFit ==
    [][pool_event'.op = "get" =>
            LET fits == FreeFits(buffer_pool, pool_event'.size)
                ret == pool_event'.ptr
            IN  IF fits # {}
                THEN /\ ret \in fits
                     /\ \A j \in fits : buffer_pool.buffer_sizes[ret]
                                          <= buffer_pool.buffer_sizes[j]
                     /\ buffer_pool'.in_use = [buffer_pool.in_use EXCEPT ![ret] = TRUE]
                     /\ buffer_pool'.fallback = buffer_pool.fallback
                ELSE /\ ret \in HeapPointers \ buffer_pool.fallback
                     /\ buffer_pool'.in_use = buffer_pool.in_use]_vars

\* A large request found the large tier in use and was served from the heap
\* while smaller pool buffers were free.
C13_Witness ==
    /\ pool_event.op = "get"
    /\ pool_event.size > MEDIUM_BUFFER_SIZE
    /\ pool_event.size <= LARGE_BUFFER_SIZE
    /\ pool_event.ptr \in HeapPointers
    /\ \E i \in PoolPointers : ~buffer_pool.in_use[i]

\* C14: buffer_pool_release(ptr) on a pool buffer clears that buffer's
\* in-use flag only and frees nothing; on any other pointer it frees the
\* pointer and changes no in-use flag.
C14_ReleaseByPointerIdentity ==
    [][pool_event'.op = "release" =>
            LET buffer == pool_event'.ptr IN
            IF buffer \in PoolPointers
            THEN /\ buffer_pool'.in_use = [buffer_pool.in_use EXCEPT ![buffer] = FALSE]
                 /\ buffer_pool'.fallback = buffer_pool.fallback
                 /\ pool_event'.freed = 0
            ELSE /\ buffer_pool'.in_use = buffer_pool.in_use
                 /\ buffer_pool'.fallback = buffer_pool.fallback \ {buffer}
                 /\ pool_event'.freed = buffer]_vars

\* A heap buffer has been released while pool buffers are in use, after a
\* pool buffer was released while a heap buffer was live.
C14_Witness ==
    /\ pool_event.op = "release"
    /\ pool_event.ptr \in HeapPointers
    /\ pool_event.freed = pool_event.ptr
    /\ \E i \in PoolPointers : buffer_pool.in_use[i]
    /\ \E i \in PoolPointers : ~buffer_pool.in_use[i]

(***************************************************************************)
(* Properties of the walk under faults                                     *)
(***************************************************************************)

\* The writer calls a callback makes and returns the result of.
CallbackOps == {"write_directory", "write_file_entry", "write_file_header"}

\* The i-th writer call of the run returned non-zero.
WriterFailedAt(i) == fail_from > 0 /\ i >= fail_from

\* C22: once a callback has returned a non-zero code c (the code of the
\* writer call it made), no further callback is invoked and the traversal
\* returns exactly c: the failed call is the last of the run and the run's
\* result is c.
C22_CallbackCodeEndsTraversal ==
    \A i \in 1..Len(writer_log) :
        (writer_log[i].op \in CallbackOps /\ WriterFailedAt(i)) =>
            /\ i = Len(writer_log)
            /\ run_pc = "done"
            /\ run_result = faults.writer_code

\* A structure callback has returned 2 with entries still unread.
C22_Witness ==
    /\ run_pc = "done"
    /\ run_result = 2
    /\ Len(writer_log) = 4
    /\ writer_log[4].op = "write_file_entry"

\* The entries below a directory of a tree without followed links, each with
\* the (path, info) pairs of the entries on the way from the root to it,
\* itself included.
RECURSIVE EntriesBelow(_, _, _, _)
EntriesBelow(fs, ino, rel, chain) ==
    UNION {LET e == fs[ino].entries[k]
               path == build_relative_path(rel, e.name)
               c == Append(chain, <<path, FileInfo(e.type = "dir", e.type = "symlink")>>)
           IN  {[name |-> e.name, type |-> e.type, chain |-> c]}
               \cup IF e.type = "dir" /\ fs[e.ino].kind = "dir"
                    THEN EntriesBelow(fs, e.ino, path, c) ELSE {}
           : k \in 1..Len(fs[ino].entries)}

\* The filter excludes the named entry of the tree or a directory on the way
\* to it.
BehindExcluded(name) ==
    \E e \in EntriesBelow(FileSystem(tree), RootInode, <<>>, <<>>) :
        /\ e.name = name
        /\ \E k \in 1..Len(e.chain) :
              should_include_path(rules, filter_plugins, e.chain[k][1], e.chain[k][2]) = 0

\* C23: an entry filter_engine_should_include_path returns 0 for gets no
\* callback and is never opened as a directory, and no entry reachable only
\* through it is visited: no callback's writer call and no frame of the
\* directory stack is about an entry that is excluded or lies below an
\* excluded directory.
C23_ExcludedEntriesAreSkippedEntirely ==
    tree = "faults" =>
        /\ \A i \in 1..Len(writer_log) :
              writer_log[i].op \in CallbackOps => ~BehindExcluded(writer_log[i].name)
        /\ \A i \in 2..Len(stack) : ~BehindExcluded(stack[i].name)

\* A run that excluded directory "a", which holds a file and a directory,
\* and went through both passes.
C23_Witness ==
    /\ tree = "faults"
    /\ run_pc = "done"
    /\ run_result = 0
    /\ should_include_path(rules, filter_plugins, <<"a">>, FileInfo(TRUE, FALSE)) = 0
    /\ BehindExcluded(<<"r">>)
    /\ \E i \in 1..Len(writer_log) : writer_log[i].op = "write_file_footer"

\* The entries of the tree a walk has to visit: those lstat succeeds on
\* that the filter lets through, whatever stat or opendir say about them.
ExpectedEntries ==
    {e \in EntriesBelow(FileSystem(tree), RootInode, <<>>, <<>>) :
        e.type # "gone" /\ ~BehindExcluded(e.name)}

\* The names the calls of some writer operations are about.
NamesWritten(ops) ==
    {writer_log[i].name : i \in {j \in 1..Len(writer_log) : writer_log[j].op \in ops}}

\* The warnings the failing system calls of a tree give rise to.
ExpectedWarnings ==
    CASE tree = "faults" ->
            {"cannot lstat"}
            \cup IF BehindExcluded(<<"v">>) THEN {} ELSE {"cannot stat subdirectory"}
            \cup IF BehindExcluded(<<"d">>) THEN {} ELSE {"cannot open directory"}
      [] tree = "noroot" -> {"cannot stat directory"}
      [] tree = "lockedroot" -> {"cannot open directory"}
      [] OTHER -> {}

\* C24: an lstat, stat or opendir that fails on one entry, the root
\* included, is a warning and skips that entry only: a run whose writer and
\* allocations work ends with result 0, with the warning of every failing
\* call logged, and with every other entry of the tree visited by both
\* passes.
C24_FailingEntryIsSkippedAlone ==
    (/\ run_pc = "done"
     /\ fail_from = 0
     /\ faults = NoFaults
     /\ tree \in {"faults", "noroot", "lockedroot"}) =>
        /\ run_result = 0
        /\ warnings = ExpectedWarnings
        /\ NamesWritten({"write_directory", "write_file_entry"})
              = {e.name : e \in ExpectedEntries}
        /\ NamesWritten({"write_file_header"})
              = {e.name : e \in {x \in ExpectedEntries : x.type = "file"}}

\* A finished run over the tree with an entry of each failing kind, nothing
\* excluded: the three warnings are logged and the file after them is read.
C24_Witness ==
    /\ run_pc = "done"
    /\ tree = "faults"
    /\ fail_from = 0
    /\ faults = NoFaults
    /\ {"cannot lstat", "cannot stat subdirectory", "cannot open directory"} \subseteq warnings
    /\ <<"z">> \in NamesWritten({"write_file_footer"})
    /\ <<"r">> \in NamesWritten({"write_file_footer"})

\* C25: a traversal started at level 0 that reaches a directory one level
\* beyond MAX_DIRECTORY_DEPTH does not descend into it (no callback for any
\* of its entries), logs the warning that names the maximum depth, and
\* returns 0.
C25_DepthLimitWarnsAndSkips ==
    (run_pc = "done" /\ tree = "deep") =>
        /\ run_result = 0
        /\ <<"u">> \notin NamesWritten(CallbackOps)
        /\ "maximum directory depth" \in warnings

\* What the walk of the deep chain does: the directory at level
\* MAX_DIRECTORY_DEPTH is not descended into and the run returns 0, with
\* the warning of the full directory stack and no other.
DeepChainStopsAtStackCapacity ==
    (run_pc = "done" /\ tree = "deep") =>
        /\ run_result = 0
        /\ <<"u">> \notin NamesWritten(CallbackOps)
        /\ warnings = {"directory stack full"}

\* The number of calls of a writer operation about entries of a name.
CallsAbout(op, name) ==
    Cardinality({i \in 1..Len(writer_log) :
                    writer_log[i].op = op /\ writer_log[i].name = name})

\* C26: when pushing a subdirectory fails because the directory stack is
\* full, its handle is closed (the open handles are those of the frames),
\* a warning is logged, that subtree alone is skipped, the remaining entries
\* of the current directory and of all its ancestors are visited, and the
\* traversal returns 0.
C26_FullStackSkipsOnlyThatSubtree ==
    /\ open_dirs = Len(stack)
    /\ (run_pc = "done" /\ tree = "deep") =>
          /\ run_result = 0
          /\ "directory stack full" \in warnings
          /\ <<"u">> \notin NamesWritten(CallbackOps)
          /\ CallsAbout("write_directory", <<"s">>) = DIR_STACK_INITIAL_CAPACITY
          /\ CallsAbout("write_file_entry", <<"t">>) = DIR_STACK_INITIAL_CAPACITY
          /\ CallsAbout("write_file_footer", <<"t">>) = DIR_STACK_INITIAL_CAPACITY

\* The push of the directory at level DIR_STACK_INITIAL_CAPACITY has just
\* failed in the structure pass: the stack is full, the warning logged, and
\* the file after the subdirectory not yet read.
C26_Witness ==
    /\ tree = "deep"
    /\ run_pc = "structure"
    /\ Len(stack) = DIR_STACK_INITIAL_CAPACITY
    /\ "directory stack full" \in warnings
    /\ stack[Len(stack)].pos = 1
    /\ open_dirs = DIR_STACK_INITIAL_CAPACITY

\* C27: the only allocation failure that ends a walk with an error code is
\* that of the directory stack; when memory_get_buffer has no read buffer
\* for one file of the content walk the run goes on: the other files are
\* processed and process_directory_content returns 0.
C27_OnlyStackAllocationIsFatal ==
    (run_pc = "done" /\ fail_from = 0 /\ tree = "faults") =>
        /\ faults.no_stack # "never" => run_result = -1
        /\ faults.no_stack = "never" =>
              /\ run_result = 0
              /\ NamesWritten({"write_file_header"})
                    = {e.name : e \in {x \in ExpectedEntries : x.type = "file"}}

\* What the code does when a file gets no read buffer: the run ends with -1
\* at that file, whose header is the last writer call.
BufferFailureEndsRun ==
    (run_pc = "done" /\ fail_from = 0 /\ tree = "faults" /\ faults.no_buffer # {}) =>
        /\ run_result = -1
        /\ writer_log[Len(writer_log)].op = "write_file_header"

(***************************************************************************)
(* Properties of the locking                                               *)
(***************************************************************************)

\* A frame of the function is on the thread's stack above frame k.
CalledFrom(k, fn) == \E j \in (k + 1)..Len(call_stack) : call_stack[j].fn = fn

\* C28: while a plugin's init runs inside plugin_manager_initialize_plugins
\* the registry mutex is not held by the initialization: it is locked only
\* while a plugin_manager_get_parameter the hook has called is in its body,
\* that call finds the mutex unlocked when it arrives at its lock, and the
\* initialization locks the mutex again only once init has returned.
C28_InitRunsWithRegistryUnlocked ==
    /\ \A k \in 1..Len(call_stack) :
          call_stack[k].fn = "init" =>
              /\ call_stack[k - 1].fn = "plugin_manager_initialize_plugins"
              /\ call_stack[k - 1].at = "body"
              /\ registry_mutex = "locked" <=>
                    (Top.fn = "plugin_manager_get_parameter" /\ Top.at = "body")
    /\ (/\ call_stack # <<>>
        /\ Top.fn = "plugin_manager_get_parameter" /\ Top.at = "lock"
        /\ call_stack[Len(call_stack) - 1].fn = "init")
          => registry_mutex = "unlocked"

\* init has called plugin_manager_get_parameter, which holds the mutex.
C28_Witness ==
    /\ Len(call_stack) = 3
    /\ call_stack[2].fn = "init"
    /\ Top.fn = "plugin_manager_get_parameter"
    /\ Top.at = "body"
    /\ registry_mutex = "locked"

\* C29: while a Transform rule's transform function or a plugin's
\* transform_content hook runs, the Filter Engine's mutex is not held by
\* filter_engine_transform_content, so a filter_engine_should_include_path
\* the hook calls finds it unlocked and returns.
C29_TransformHooksRunUnlocked ==
    /\ \A k \in 1..Len(call_stack) :
          call_stack[k].fn \in {"transform", "transform_content"} =>
              engine_mutex = "locked" <=>
                  (Top.fn = "filter_engine_should_include_path" /\ Top.at = "body")
    /\ (call_stack # <<>> /\ Top.fn = "filter_engine_should_include_path" /\ Top.at = "lock")
          => engine_mutex = "unlocked"

\* What the code does: the engine's mutex is locked from the start of
\* filter_engine_transform_content to its end, hooks included, and a
\* filter_engine_should_include_path called by a hook stays at its lock.
TransformHooksRunLocked ==
    \A k \in 1..Len(call_stack) :
        call_stack[k].fn \in {"transform", "transform_content"} =>
            /\ engine_mutex = "locked"
            /\ \A j \in (k + 1)..Len(call_stack) : call_stack[j].at = "lock"

\* C34: while a cleanup hook called from plugin_manager_destroy executes,
\* the registry mutex is not held by the calling thread, so a
\* plugin_manager_get_parameter the hook calls finds it unlocked and
\* returns.
C34_CleanupRunsWithRegistryUnlocked ==
    /\ \A k \in 1..Len(call_stack) :
          call_stack[k].fn = "cleanup" =>
              registry_mutex = "locked" <=>
                  (Top.fn = "plugin_manager_get_parameter" /\ Top.at = "body")
    /\ (/\ call_stack # <<>>
        /\ Top.fn = "plugin_manager_get_parameter" /\ Top.at = "lock"
        /\ call_stack[Len(call_stack) - 1].fn = "cleanup")
          => registry_mutex = "unlocked"

\* What the code does: the registry mutex is locked from the start of
\* plugin_manager_destroy to its end, cleanup hooks included, and a
\* plugin_manager_get_parameter called by a cleanup hook stays at its lock.
CleanupHooksRunLocked ==
    \A k \in 1..Len(call_stack) :
        call_stack[k].fn = "cleanup" =>
            /\ registry_mutex = "locked"
            /\ \A j \in (k + 1)..Len(call_stack) : call_stack[j].at = "lock"

(***************************************************************************)
(* Properties of the usage statistics                                      *)
(***************************************************************************)

\* The sum of the requested sizes of the live allocations among a set of
\* blocks.
RECURSIVE LiveUsage(_)
LiveUsage(addrs) ==
    IF addrs = {} THEN 0
    ELSE LET a == CHOOSE x \in addrs : TRUE
         IN  (IF heap[a].allocated THEN heap[a].size ELSE 0) + LiveUsage(addrs \ {a})

\* C30: with tracking on, after any sequence of memory_alloc,
\* memory_realloc and memory_free calls current_usage is the sum of the
\* requested sizes of the live allocations, and peak_usage is the largest
\* value current_usage has taken: both start at 0 and every step leaves
\* peak_usage at the larger of its old value and the new current_usage.
C30_UsageIsLiveSumAndPeakItsMaximum ==
    /\ mem_stats.peak_usage = mem_stats.current_usage
    /\ [](track_allocations => mem_stats.current_usage = LiveUsage(Addresses))
    /\ [][mem_stats'.peak_usage =
             IF mem_stats'.current_usage > mem_stats.peak_usage
             THEN mem_stats'.current_usage ELSE mem_stats.peak_usage]_vars

\* An allocation of 8 bytes was resized to 16 and then freed: nothing is
\* live and the peak stays at 16.
C30_Witness ==
    /\ mem_event.op \in {"free", "realloc"}
    /\ mem_event.report = "released"
    /\ mem_stats.total_allocated = 24
    /\ mem_stats.current_usage = 0
    /\ mem_stats.peak_usage = 16
    /\ LiveUsage(Addresses) = 0

(***************************************************************************)
(* Properties of failing matchers                                          *)
(***************************************************************************)

\* The rules with every failing matcher taken as one that does not match.
NoMatchOnFailure(rs) ==
    [i \in 1..Len(rs) |->
        IF rs[i].match_path = "user_match_path" /\ rs[i].context.ret < 0
        THEN [rs[i] EXCEPT !.context.ret = 0] ELSE rs[i]]

\* C21 as the specification states it: a matcher that returns a negative
\* value counts as one that did not match, so a failing Exclude matcher never
\* excludes the entry, and should_include_path returns 0 or 1, never an
\* error.
C21_FailingMatcherIsNoMatch ==
    query.asked =>
        /\ query.result \in {0, 1}
        /\ query.result =
              should_include_path(NoMatchOnFailure(rules), filter_plugins,
                                  query.path, query.info)

(***************************************************************************)
(* Properties of the transform chain                                       *)
(***************************************************************************)

\* The stages of filter_engine_transform_content on an engine: the Transform
\* rules that have a transform function, in the order of the rule array,
\* then the transform hooks of the plugins, in the order of the plugin array.
\* A stage substitutes when it returns 0 and stores a buffer; the built-in
\* placeholder stages store a text that does not depend on their input.
RuleStage(rule) ==
    IF rule.transform = "user_transform"
    THEN [substitutes |-> rule.context.ret = 0 /\ rule.context.has_data,
          replaces |-> FALSE, tag |-> rule.context.tag]
    ELSE [substitutes |-> rule.context.handling \in {"BINARY_PLACEHOLDER", "SYMLINK_PLACEHOLDER"},
          replaces |-> TRUE,
          tag |-> IF rule.transform = "binary_transform"
                  THEN "binary placeholder" ELSE "symlink placeholder"]

PluginStage(plugin) ==
    [substitutes |-> plugin.transform_content.hook.ret = 0
                     /\ plugin.transform_content.hook.has_data,
     replaces |-> FALSE, tag |-> plugin.transform_content.hook.tag]

Stages(rs, ps) ==
    LET rr == SelectSeq(rs, LAMBDA r : r.type = FILTER_TYPE_TRANSFORM /\ r.transform # NULL)
        pp == SelectSeq(ps, LAMBDA q : q.transform_content.present)
    IN  [k \in 1..Len(rr) |-> RuleStage(rr[k])] \o [k \in 1..Len(pp) |-> PluginStage(pp[k])]

\* The output the chain must hand back for input: the input when no stage
\* substitutes; else the data of the last substituting stage, which is the
\* tags of the substituting stages, in order, after the input, or after the
\* last placeholder text.
ExpectedOutput(rs, ps, input) ==
    LET subs == SelectSeq(Stages(rs, ps), LAMBDA st : st.substitutes)
        reset == {k \in 1..Len(subs) : subs[k].replaces}
        last == IF reset = {} THEN 0 ELSE CHOOSE k \in reset : \A j \in reset : j <= k
    IN  IF last = 0
        THEN [size |-> input.size + Len(subs),
              data |-> input.data \o [k \in 1..Len(subs) |-> subs[k].tag]]
        ELSE [size |-> 39 + (Len(subs) - last),
              data |-> [k \in 1..(Len(subs) - last + 1) |-> subs[last + k - 1].tag]]

\* C20: registration only appends to the rule array and to the plugin array,
\* whatever the priority of the rule; filter_engine_transform_content runs
\* every Transform rule that has a transform function, then every plugin's
\* transform hook, in the order of registration; a stage that declines
\* leaves the current data to the next stage; the output is the data of the
\* last substituting stage, or the input when none substitutes.
C20_TransformChainInRegistrationOrder ==
    [][/\ Len(rules') >= Len(rules) /\ SubSeq(rules', 1, Len(rules)) = rules
       /\ Len(filter_plugins') >= Len(filter_plugins)
       /\ SubSeq(filter_plugins', 1, Len(filter_plugins)) = filter_plugins
       /\ query'.asked =>
             query'.output = ExpectedOutput(rules', filter_plugins', query'.input)]_vars

\* C20's case: a Transform rule of priority 10 was registered before one of
\* priority 90, a plugin whose hook declines before one whose hook
\* substitutes, and the output carries the marks of the two rules and of the
\* second plugin in this order.
C20_Witness ==
    /\ query.asked
    /\ query.output.data = <<"original", "a", "b", "p">>
    /\ Len(filter_plugins) = 2
    /\ filter_plugins[1].transform_content.present
    /\ filter_plugins[1].transform_content.hook.ret # 0
    /\ \E i, j \in 1..Len(rules) :
          /\ i < j
          /\ rules[i].type = FILTER_TYPE_TRANSFORM /\ rules[i].priority = 10
          /\ rules[j].type = FILTER_TYPE_TRANSFORM /\ rules[j].priority = 90

(***************************************************************************)
(* Properties of the plugin manager                                        *)
(***************************************************************************)

\* The entry points of a library that return a plugin, by position in the
\* probing order, and the symbols a sequence of calls looked up, in order.
Recognized(lib) == {k \in 1..Len(EntryPoints) : lib.exports[EntryPoints[k]] = "plugin"}
FirstRecognized(lib) == CHOOSE k \in Recognized(lib) : \A j \in Recognized(lib) : k <= j
Probed(calls) == SelectSeq(calls, LAMBDA c : c.op = "dlsym")
Closes(calls, handle) == \E n \in 1..Len(calls) : calls[n].op = "dlclose" /\ calls[n].sym = handle

\* The probes of a load are made in the order format, filter, content, and
\* stop at the first entry point that returns a plugin.
ProbedInOrder(lib, calls) ==
    /\ \A j \in 1..Len(Probed(calls)) : Probed(calls)[j].sym = EntryPoints[j]
    /\ Len(Probed(calls)) =
          IF Recognized(lib) = {} THEN Len(EntryPoints) ELSE FirstRecognized(lib)

\* A load that registered lib as the first kind its entry points offer, with
\* the engine of that kind and no other.
RegisteredAsFirstRecognized(lib) ==
    /\ plugin_event'.ret = 0
    /\ ~Closes(plugin_event'.calls, lib.path)
    /\ Len(registry') = Len(registry) + 1
    /\ SubSeq(registry', 1, Len(registry)) = registry
    /\ registry'[Len(registry')].type = PluginTypes[FirstRecognized(lib)]
    /\ registry'[Len(registry')].handle = lib.path
    /\ format_plugins' =
          IF FirstRecognized(lib) = 1
          THEN Append(format_plugins, Formatter(lib.name, lib.path))
          ELSE format_plugins
    /\ Len(filter_plugins') = Len(filter_plugins) + (IF FirstRecognized(lib) = 2 THEN 1 ELSE 0)
    /\ SubSeq(filter_plugins', 1, Len(filter_plugins)) = filter_plugins

\* A load that closed the library and changed neither the registry nor an
\* engine's plugin list.
Rejected(lib) ==
    /\ plugin_event'.ret = -1
    /\ plugin_event'.calls[Len(plugin_event'.calls)].op = "dlclose"
    /\ Closes(plugin_event'.calls, lib.path)
    /\ UNCHANGED <<registry, format_plugins, active_formatter, filter_plugins>>

InitCalls(calls, i) == SelectSeq(calls, LAMBDA c : c.op = "init" /\ c.index = i)

\* What holds of every plugin_manager_load_plugin and of every
\* plugin_manager_initialize_plugins call whatever hooks the plugins have:
\* a load calls no init; an initialization pass calls no init of a plugin
\* already flagged and leaves that plugin alone; it keeps every plugin
\* registered and its library open; and a plugin whose init returns non-zero
\* stays as it was, initialized = false.
InitDeferredAndAdvisory ==
    /\ plugin_event'.op \in {"load", "configure"} =>
          \A n \in 1..Len(plugin_event'.calls) : plugin_event'.calls[n].op # "init"
    /\ plugin_event'.op = "initialize" =>
          /\ Len(registry') = Len(registry)
          /\ \A n \in 1..Len(plugin_event'.calls) : plugin_event'.calls[n].op = "init"
          /\ \A i \in 1..Len(registry) :
                /\ registry[i].initialized =>
                      InitCalls(plugin_event'.calls, i) = <<>> /\ registry'[i] = registry[i]
                /\ (\E n \in 1..Len(plugin_event'.calls) :
                       /\ plugin_event'.calls[n].op = "init"
                       /\ plugin_event'.calls[n].index = i
                       /\ plugin_event'.calls[n].ret # 0) =>
                      registry'[i] = registry[i] /\ ~registry'[i].initialized

CallsAt(calls, op, i) == {n \in 1..Len(calls) : calls[n].op = op /\ calls[n].index = i}

\* C19: plugin_manager_destroy calls the cleanup hook of every registered
\* plugin that has one, initialized or not, and of no other; it closes each
\* plugin's library handle once, after that plugin's cleanup has returned;
\* and at its return the handle of every registered plugin has been closed.
C19_CleanupThenClose ==
    [][plugin_event'.op = "destroy" =>
          /\ \A n \in 1..Len(plugin_event'.calls) :
                plugin_event'.calls[n].op \in {"cleanup", "dlclose"}
          /\ \A i \in 1..Len(registry) :
                /\ Cardinality(CallsAt(plugin_event'.calls, "cleanup", i)) =
                      IF registry[i].cleanup THEN 1 ELSE 0
                /\ Cardinality(CallsAt(plugin_event'.calls, "dlclose", i)) = 1
                /\ \A n \in CallsAt(plugin_event'.calls, "dlclose", i) :
                      /\ plugin_event'.calls[n].sym = registry[i].handle
                      /\ \A m \in CallsAt(plugin_event'.calls, "cleanup", i) : m < n]_vars

\* C19's case: the manager has been destroyed with two plugins registered:
\* the cleanup of the content plugin, whose init never succeeds, was called
\* and its library closed, then the library of the filter plugin, which has
\* no cleanup hook, was closed.
C19_Witness ==
    /\ plugin_event.op = "destroy"
    /\ plugin_event.calls =
          <<PluginCall("cleanup", "cont", 1, 0), PluginCall("dlclose", "cont.so", 1, 0),
            PluginCall("dlclose", "filt.so", 2, 0)>>

(***************************************************************************)
(* Properties of a run                                                     *)
(***************************************************************************)

FollowsSymlinks == run_config.symlink_handling = "SYMLINK_FOLLOW"

\* C1: under symlink policy "follow", on a finite directory graph with
\* self-referential and mutually-referential symlink cycles, every traversal
\* that has started reaches an empty directory stack.
C1_TraversalTerminates == (FollowsSymlinks /\ stack # <<>>) ~> (stack = <<>>)

\* C1's case: a run that followed symlinks over the tree with the cycles
\* has met a cycle and has returned from both traversals.
C1_Witness ==
    /\ tree = "cycles"
    /\ FollowsSymlinks
    /\ run_pc = "done"
    /\ run_result = 0
    /\ "circular symlink" \in warnings
    /\ \E i \in 1..Len(writer_log) : writer_log[i].op = "end_content"

\* C2 as the specification states it: the frames on the directory stack
\* have pairwise distinct (device, inode) pairs.
C2_StackFramesDistinct ==
    \A i, j \in 1..Len(stack) : i # j => stack[i].inode # stack[j].inode

\* The writer calls that may follow one another in
\* begin_document, begin_structure, (write_directory | write_file_entry)*,
\* end_structure, begin_content,
\* (write_file_header, write_file_chunk*, write_file_footer)*,
\* end_content, end_document.
ProtocolSuccessors(op) ==
    CASE op = "begin_document" -> {"begin_structure"}
      [] op \in {"begin_structure", "write_directory", "write_file_entry"} ->
            {"write_directory", "write_file_entry", "end_structure"}
      [] op = "end_structure" -> {"begin_content"}
      [] op \in {"begin_content", "write_file_footer"} ->
            {"write_file_header", "end_content"}
      [] op \in {"write_file_header", "write_file_chunk"} ->
            {"write_file_chunk", "write_file_footer"}
      [] op = "end_content" -> {"end_document"}
      [] OTHER -> {}

FollowsProtocol(log) ==
    /\ Len(log) >= 1
    /\ log[1].op = "begin_document"
    /\ log[Len(log)].op = "end_document"
    /\ \A i \in 1..(Len(log) - 1) : log[i + 1].op \in ProtocolSuccessors(log[i].op)

RunSucceeded == run_pc = "done" /\ run_result = 0

\* C6 as the specification states it: in a run that completes successfully
\* the writer calls follow the protocol; every write_file_header is followed
\* by one write_file_footer before the next header or end_content.
C6_WriterProtocol == RunSucceeded => FollowsProtocol(writer_log)

\* The directory entry a content call's name refers to.
NamedEntry(name) ==
    LET fs == FileSystem(tree)
    IN  CHOOSE e \in UNION {{fs[d].entries[k] : k \in 1..Len(fs[d].entries)} :
                              d \in 1..Len(fs)} : e.name = name

\* The chunks content_callback reads a file in, as offsets, and those the
\* NUL-byte check excludes.
ChunkOffsets(file) ==
    {k * BufferSize(file.size) : k \in 0..((file.size + BufferSize(file.size) - 1)
                                            \div BufferSize(file.size) - 1)}

ExcludedChunks(file) ==
    {o \in ChunkOffsets(file) :
        binary_match_content(
            Chunk(file, o, Min(BufferSize(file.size), file.size - o)),
            HandlingContext("BINARY_SKIP")) # 0}

\* The write_file_chunk calls that belong to the write_file_header at i.
ChunkCallsOf(i) ==
    {j \in (i + 1)..Len(writer_log) :
        /\ writer_log[j].op = "write_file_chunk"
        /\ \A k \in (i + 1)..j : writer_log[k].op # "write_file_header"}

RECURSIVE BytesWritten(_)
BytesWritten(calls) ==
    IF calls = {} THEN 0
    ELSE LET j == CHOOSE x \in calls : TRUE
         IN  writer_log[j].size + BytesWritten(calls \ {j})

\* C7 as the specification states it: under binary policy "skip", a regular
\* file with a chunk the NUL-byte check excludes has no chunk written, and a
\* readable file whose chunks all pass is written in full.
C7_ContentAllOrNothing ==
    (RunSucceeded /\ run_config.binary_handling = "BINARY_SKIP") =>
        \A i \in 1..Len(writer_log) :
            (/\ writer_log[i].op = "write_file_header"
             /\ NamedEntry(writer_log[i].name).type = "file")
            => LET file == FileSystem(tree)[NamedEntry(writer_log[i].name).ino]
               IN  IF ExcludedChunks(file) # {}
                   THEN ChunkCallsOf(i) = {}
                   ELSE (file.openable /\ file.size <= MAX_FILE_SIZE)
                        => BytesWritten(ChunkCallsOf(i)) = file.size

\* ------------------------------------------------------------------------
\* Properties of the visited set
\* ------------------------------------------------------------------------

\* The inodes of the frames on the directory stack, bottom first.
StackInodes == [i \in 1..Len(stack) |-> stack[i].inode]

\* C31: at the start of every iteration of the traversal loop the visited
\* set holds exactly the inodes of the frames on the directory stack, in
\* stack order, also after a push was refused because the directory stack
\* or the visited set was full.
C31_VisitedSetMirrorsStack ==
    (run_pc \in {"structure", "content"}) => visited = StackInodes

\* What the code keeps: the visited set is a prefix of the frames' inodes,
\* and it is all of them as long as no push was refused.
VisitedSetIsPrefixOfStack ==
    (run_pc \in {"structure", "content"}) =>
        /\ Len(visited) <= Len(stack)
        /\ visited = SubSeq(StackInodes, 1, Len(visited))
        /\ ("directory stack full" \notin warnings) => visited = StackInodes

\* ------------------------------------------------------------------------
\* Properties of the teardown
\* ------------------------------------------------------------------------

\* The calls made so far by the teardown of main.
TeardownCalls ==
    IF plugin_event.op \in {"destroy", "format_destroy", "filter_destroy", "fault"}
    THEN plugin_event.calls ELSE <<>>

\* Call k goes into the library of handle h: it runs a hook of a plugin
\* that came from it, or reads the plugin's descriptor in it.
GoesInto(k, h) ==
    \/ TeardownCalls[k].op = "descriptor" /\ TeardownCalls[k].sym = h
    \/ TeardownCalls[k].op = "cleanup" /\ LibraryNamed(TeardownCalls[k].sym).path = h

\* C32: during teardown no function of a loaded plugin is called, and no
\* plugin descriptor inside a loaded library is read, after the library's
\* handle has been closed.
C32_NothingOfAClosedLibraryIsUsed ==
    \A j \in 1..Len(TeardownCalls) :
        TeardownCalls[j].op = "dlclose" =>
            \A k \in (j + 1)..Len(TeardownCalls) : ~GoesInto(k, TeardownCalls[j].sym)

\* What the code keeps: plugin_manager_destroy itself calls nothing of a
\* library it has closed.
ManagerUsesNoClosedLibrary ==
    plugin_event.op = "destroy" =>
        \A j \in 1..Len(TeardownCalls) :
            TeardownCalls[j].op = "dlclose" =>
                \A k \in (j + 1)..Len(TeardownCalls) :
                    TeardownCalls[k].op = "cleanup" => TeardownCalls[k].index > TeardownCalls[j].index

\* The number of calls of an operation on a symbol made by the teardown.
TeardownCount(op, sym) ==
    Cardinality({k \in 1..Len(TeardownCalls) :
                    TeardownCalls[k].op = op /\ TeardownCalls[k].sym = sym})

\* C33: across plugin_manager_destroy, format_engine_destroy and
\* filter_engine_destroy the cleanup hook of each loaded format or filter
\* plugin is invoked at most once: no more often than the plugin was loaded
\* (each load has its dlclose).
C33_CleanupAtMostOncePerPlugin ==
    \A lib \in TeardownLibraries :
        TeardownCount("cleanup", lib.name) <= TeardownCount("dlclose", lib.path)

\* What the code does: a plugin with a cleanup hook that the teardown runs
\* to its end over has had the hook called once by the manager and once
\* more by its engine.
CleanupTwiceForEnginePlugins ==
    plugin_event.op = "filter_destroy" =>
        \A lib \in TeardownLibraries :
            (lib.cleanup /\ lib.path # "cont.so") =>
                TeardownCount("cleanup", lib.name) = 2 * TeardownCount("dlclose", lib.path)

\* ------------------------------------------------------------------------
\* Properties of the binary placeholder
\* ------------------------------------------------------------------------

\* The chunk has a NUL byte among its first 1024 bytes.
ContainsNul(input) == \E k \in 1..Len(input.data) : input.data[k] = "NUL"

\* The engine holds no transform of the user's: its only stages are those
\* filter_engine_configure has added.
OnlyConfiguredStages ==
    /\ \A i \in 1..Len(rules) : rules[i].transform # "user_transform"
    /\ \A i \in 1..Len(filter_plugins) : ~filter_plugins[i].transform_content.present

BinaryPlaceholderText == [size |-> 39, data |-> <<"binary placeholder">>]

\* C35: under binary policy "placeholder" a chunk without a NUL byte in its
\* first 1024 bytes passes through filter_engine_transform_content
\* unchanged, and a chunk detected as binary is replaced by the placeholder
\* text.
C35_PlaceholderOnlyForBinaryChunks ==
    (/\ query.asked /\ query.op = "transform_content"
     /\ filter_config.binary_handling = "BINARY_PLACEHOLDER"
     /\ OnlyConfiguredStages)
    => query.output = IF ContainsNul(query.input) THEN BinaryPlaceholderText
                      ELSE query.input

\* What the code does: under the placeholder policy every chunk is replaced
\* by the placeholder text, and under the other policies none is.
PlaceholderForEveryChunk ==
    (/\ query.asked /\ query.op = "transform_content"
     /\ OnlyConfiguredStages)
    => query.output = IF filter_config.binary_handling = "BINARY_PLACEHOLDER"
                      THEN BinaryPlaceholderText ELSE query.input

\* ------------------------------------------------------------------------
\* Properties of the buffers of the content pass
\* ------------------------------------------------------------------------

\* The positions of a log at which an operation is done with a buffer.
LogPositions(log, op, ptr) ==
    {k \in 1..Len(log) : log[k].op = op /\ log[k].ptr = ptr}

\* Every buffer a log obtains is released after it, once, before it is
\* obtained again, and nothing else is released.
ReleasedExactlyOnce(log) ==
    /\ \A k \in 1..Len(log) :
          log[k].op = "get" =>
              \E r \in (k + 1)..Len(log) :
                  /\ log[r].op = "release" /\ log[r].ptr = log[k].ptr
                  /\ \A j \in (k + 1)..(r - 1) :
                        log[j].ptr = log[k].ptr => log[j].op = "write"
    /\ \A p \in PoolPointers \cup HeapPointers :
          Cardinality(LogPositions(log, "release", p))
              = Cardinality(LogPositions(log, "get", p))
    /\ \A k \in 1..Len(log) : log[k].ptr # 0

\* C36: content_callback leaves the buffer pool as it found it (a pool
\* whose slots were all free has them all free again) and releases each
\* buffer it or a stage of filter_engine_transform_content has obtained
\* exactly once, whether the content was excluded, a transform declined, the
\* transform chain failed, the writer failed or all went well.
C36_EveryBufferReleasedOnce ==
    [][pool_event'.op = "content" =>
          /\ buffer_pool' = buffer_pool
          /\ ReleasedExactlyOnce(query'.output.log)]_vars

\* The second chunk of a file was excluded after the first went through a
\* substituting stage and a failing writer, all on pool buffers, and every
\* slot is free.
C36_Witness ==
    /\ pool_event.op = "content"
    /\ query.input = File(5000, {4500})
    /\ filter_config.binary_handling = "BINARY_SKIP"
    /\ \E k \in 1..Len(query.output.log) :
          /\ query.output.log[k].op = "write"
          /\ query.output.log[k].ret = -1
          /\ query.output.log[k].ptr \in HeapPointers
    /\ Cardinality(LogPositions(query.output.log, "write", query.output.log[1].ptr)) = 0
    /\ Len(query.output.log) = 7
    /\ \A i \in PoolPointers : ~buffer_pool.in_use[i]
    /\ buffer_pool.fallback = {}

\* ------------------------------------------------------------------------
\* Properties of the directory handles
\* ------------------------------------------------------------------------

\* C37: on every return path of the traversal (normal completion, abort by
\* a non-zero callback result, refused push) every directory handle that
\* was opened has been closed, once: while a pass runs the open handles are
\* those of the frames on the stack, and when it has returned none is open.
C37_NoHandleOpenAfterTraversal ==
    /\ (run_pc \in {"structure", "content"} /\ stack # <<>>) => open_dirs = Len(stack)
    /\ (run_pc = "done" \/ stack = <<>>) => open_dirs = 0

\* The structure callback has returned 2 for the file two directories
\* below the root, with three handles open; the run has returned and none
\* is open.
C37_Witness ==
    /\ run_pc = "done"
    /\ tree = "faults"
    /\ run_result = 2
    /\ writer_log[Len(writer_log)].op = "write_file_entry"
    /\ writer_log[Len(writer_log)].name = <<"r">>
    /\ open_dirs = 0

\* ------------------------------------------------------------------------
\* Properties of the tracking switch
\* ------------------------------------------------------------------------

\* C38: for any interleaving of memory_enable_tracking with memory_alloc,
\* memory_realloc and memory_free, the counter current_usage never wraps
\* below zero.
C38_UsageNeverWraps ==
    mem_stats.current_usage >= 0

\* What the code keeps: the counter moves only while tracking is on, and
\* then by the sizes in the headers, whether or not they were counted when
\* allocated.
UsageMovesOnlyWhileTracking ==
    [][(~track_allocations /\ ~track_allocations') =>
          mem_stats' = mem_stats]_vars

\* ------------------------------------------------------------------------
\* Properties of the output-self-exclusion rule
\* ------------------------------------------------------------------------

\* The configuration names no pattern of the user's.
NoUserPatterns ==
    /\ filter_config.exclude_patterns = <<>>
    /\ filter_config.include_patterns = <<>>

\* C39: the output-self-exclusion rule excludes only the output file
\* itself: with no other rule to exclude it, a regular file of the input
\* tree other than the output file is included, also when it has the
\* output file's basename in another directory.
C39_OnlyTheOutputFileIsExcluded ==
    (/\ OnlyConfigured
     /\ NoUserPatterns
     /\ OutputInsideInput(filter_config)
     /\ IsRegularFileQuery
     /\ query.path # OutputRelativePath)
    => query.result = 1

\* What the code does: the rule excludes every entry whose relative path
\* or basename matches, as a glob pattern, the output file's absolute
\* path, relative path or basename, and with the configured rules alone no
\* other regular file.
OutputRuleExcludesByBasename ==
    (/\ OnlyConfigured
     /\ NoUserPatterns
     /\ OutputInsideInput(filter_config)
     /\ IsRegularFileQuery)
    => (query.result = 0 <=>
            \E i \in 1..Len(OutputFilePatterns(filter_config)) :
                \/ match_pattern_enhanced(OutputFilePatterns(filter_config)[i], query.path)
                \/ match_pattern_enhanced(OutputFilePatterns(filter_config)[i],
                                          get_basename(query.path)))

(***************************************************************************)
(* Properties of the stream buffer                                         *)
(***************************************************************************)

\* stream_buffer_write returns in this step.
StreamWriteReturning ==
    stream_write.pc # "idle" \/ stream_write'.calls # stream_write.calls

\* C40: stream_buffer_write terminates for every buffer state and write
\* size, a buffer created with capacity 0 included; whenever it returns,
\* size <= capacity <= MAX_STREAM_BUFFER_SIZE; size and capacity are
\* unchanged when it returns failure. The code does not do this: the loop
\* of a buffer of capacity 0 doubles 0 for ever.
C40_WriteTerminatesWithinBounds ==
    /\ (stream_write.pc = "loop") ~> (stream_write.pc = "idle")
    /\ [][(StreamWriteReturning /\ stream_write'.pc = "idle")
            => /\ stream_buffer'.size <= stream_buffer'.capacity
               /\ stream_buffer'.capacity <= MAX_STREAM_BUFFER_SIZE
               /\ stream_write'.ret = -1 => stream_buffer' = stream_buffer]_vars

\* What the code does. A write to a buffer of capacity 0 never leaves the
\* loop.
WriteToEmptyCapacitySpins ==
    [][stream_write.pc = "loop" /\ stream_write.new_capacity = 0
         => stream_write' = stream_write]_vars

\* A write whose loop starts from a capacity above 0 returns.
WriteFromPositiveCapacityReturns ==
    (stream_write.pc = "loop" /\ stream_write.new_capacity > 0)
        ~> (stream_write.pc = "idle")

\* The size stays within the capacity and the capacity within the limit,
\* for a buffer created within the limit; a failed write leaves size and
\* capacity alone.
WriteKeepsSizeWithinCapacity ==
    /\ stream_buffer.size <= stream_buffer.capacity
    /\ stream_buffer.capacity <= MAX_STREAM_BUFFER_SIZE

FailedWriteChangesNothing ==
    [][(StreamWriteReturning /\ stream_write'.pc = "idle" /\ stream_write'.ret = -1)
         => stream_buffer' = stream_buffer]_vars

\* A write has spun: it stands in the loop of a buffer of capacity 0.
WriteSpinning ==
    /\ stream_write.pc = "loop"
    /\ stream_buffer.capacity = 0
    /\ stream_write.new_capacity = 0

====
